---- MODULE Spec2Model ----
(***************************************************************************)
(* State-machine model of contracts/src/RailaModule.sol: the pairwise loan *)
(* ledger, the per-account aggregates, interest accrual, and the path      *)
(* based borrow and repay operations, together with the collaborators the  *)
(* contract calls (the ERC20 token, the Circles hub, the Safe of path[0]). *)
(*                                                                         *)
(* Solidity 0.8 arithmetic is checked: an operation whose result leaves    *)
(* the uint256 range aborts the whole call ("Panic").  The model keeps     *)
(* that discipline on a narrower word (MAX_UINT) and a smaller fixed-point *)
(* denominator, so that truncation and overflow happen on small numbers.   *)
(* A call that aborts leaves every storage variable as it was (the EVM     *)
(* rolls the transaction back); only the record of the call is kept.       *)
(***************************************************************************)
EXTENDS Integers, Sequences, FiniteSets, TLC

\* ------------------------------------------------------------------ bounds
NumAddr == 3             \* number of accounts
MAX_UINT == 15           \* largest value of the (narrowed) unsigned word
MaxTime == 2             \* block.timestamp ranges over 0..MaxTime
MaxCalls == 3            \* borrow, repay and updateLoan calls that go through
InitTokens == 3          \* token balance every account starts with
MaxMerged == 4           \* amounts and rates the merge is tabulated for

\* DENOMINATOR is 1e18 in the contract; every formula of the contract is
\* homogeneous in it, and the model uses a denominator that fits the word.
DENOMINATOR == 2

Addr == 1 .. NumAddr

\* --------------------------------------------------------------- the types
ZeroLimits ==
  [lendingCap |-> 0, minLendIR |-> 0, borrowCap |-> 0, maxBorrowIR |-> 0,
   minIRMargin |-> 0]

ZeroBalance ==
  [lent |-> 0, owedPerSecond |-> 0, borrowed |-> 0, owesPerSecond |-> 0,
   timestamp |-> 0]

ZeroLoan == [amount |-> 0, interestRatePerSecond |-> 0, timestamp |-> 0]

\* ------------------------------------------------------------------ inputs
\* Settings an account may choose in setSettings.
OpenLimits ==
  [lendingCap |-> 4, minLendIR |-> 0, borrowCap |-> 4, maxBorrowIR |-> 2,
   minIRMargin |-> 0]

StrictLimits ==
  [lendingCap |-> 2, minLendIR |-> 2, borrowCap |-> 1, maxBorrowIR |-> 1,
   minIRMargin |-> 1]

\* A relayer that asks for a margin of two.
WideMarginLimits ==
  [lendingCap |-> 4, minLendIR |-> 0, borrowCap |-> 4, maxBorrowIR |-> 2,
   minIRMargin |-> 2]

\* A lender that does not relay: it lends, and its borrowCap is 0.
LendOnlyLimits ==
  [lendingCap |-> 4, minLendIR |-> 0, borrowCap |-> 0, maxBorrowIR |-> 2,
   minIRMargin |-> 0]

\* setSettings calls, <<caller, limits>>.
SettingsInputs ==
  {<<3, OpenLimits>>, <<2, OpenLimits>>, <<2, StrictLimits>>,
   <<2, WideMarginLimits>>, <<2, LendOnlyLimits>>}

Rates == {1, 2}

Amounts == {1, 2}

RepayAmounts == {1, 2, 3}

\* borrow calls, <<caller, amount, path, rates>>: account 1 borrows from 2 or
\* from 3, account 2 borrows from 3, account 1 borrows from 3 through 2; a
\* path against the trust relation, a loan to oneself, paths that repeat an
\* account, a caller that is also the relayer, an amount of 0, an amount of 0
\* at rates of 0, the empty path
\* and lists of different lengths.
BorrowInputs ==
  {<<1, a, <<2>>, <<r>> >> : a \in Amounts, r \in Rates}
    \cup {<<2, a, <<3>>, <<r>> >> : a \in Amounts, r \in Rates}
    \cup {<<1, a, <<3, 2>>, <<r, q>> >> : a \in Amounts, r \in Rates,
                                          q \in Rates}
    \cup {<<3, 1, <<2, 3>>, <<1, 2>> >>, <<3, 1, <<3, 2>>, <<1, 2>> >>,
          <<2, 1, <<1>>, <<1>> >>,
          <<2, 1, <<2>>, <<1>> >>, <<1, 1, <<2, 2>>, <<1, 1>> >>,
          <<2, 1, <<3, 2>>, <<1, 2>> >>, <<1, 1, <<3, 2, 2>>, <<1, 1, 1>> >>,
          <<1, 0, <<2>>, <<1>> >>, <<1, 0, <<3, 2>>, <<1, 2>> >>,
          <<1, 0, <<3, 2>>, <<0, 0>> >>,
          <<1, 1, <<>>, <<>> >>, <<1, 1, <<>>, <<1>> >>,
          <<2, 0, <<>>, <<>> >>, <<1, 2, <<>>, <<1, 2>> >>,
          <<1, 1, <<3>>, <<>> >>, <<1, 1, <<3, 2>>, <<1>> >>}

\* repay calls, <<caller, amount, path>>: along one loan, along the chain
\* 1 -> 2 -> 3, by an account that is not the borrower, paths of length 1 and
\* 0, paths that repeat an account, a chain of three loans, and the chain
\* 1 -> 2 -> 3 repaid by its relayer.
RepayInputs ==
  {<<1, a, p>> : a \in RepayAmounts, p \in {<<1, 2>>, <<1, 2, 3>>}}
    \cup {<<2, a, <<2, 3>> >> : a \in RepayAmounts}
    \cup {<<2, 1, <<1, 2>> >>, <<1, 1, <<1>> >>, <<1, 1, <<2>> >>,
          <<1, 1, <<>> >>, <<2, 1, <<2, 2>> >>, <<1, 2, <<1, 2, 1>> >>,
          <<1, 2, <<1, 2, 2, 3>> >>, <<2, 3, <<>> >>,
          <<2, 3, <<1>> >>, <<1, 0, <<2>> >>, <<2, 2, <<1, 2, 3>> >>}

\* updateLoan calls, <<lender, borrower>>.
AccrueInputs == {<<2, 1>>, <<3, 2>>, <<2, 2>>, <<1, 3>>}

\* The hub's trust relation: <<a, b>> means a trusts b.
HubTrust == {<<3, 2>>, <<2, 1>>, <<3, 1>>, <<2, 2>>}

\* ------------------------------------------------------------------- state
VARIABLES
  limits,     \* mapping(address => UserLimits)
  balances,   \* mapping(address => UserBalance)
  loans,      \* loans[lender][borrower]
  now,        \* block.timestamp
  trust,      \* the hub's trust relation
  tokenBal,   \* TOKEN.balanceOf
  calls,      \* borrow, repay and updateLoan calls that went through
  last        \* the last call: its arguments, its outcome, the state before it

vars == <<limits, balances, loans, now, trust, tokenBal, calls, last>>

\* The storage a call reads and writes, as one value.
Ledger ==
  [limits |-> limits, balances |-> balances, loans |-> loans,
   tokenBal |-> tokenBal]

\* An execution context: the ledger plus the outcome so far.
Start(l) ==
  [limits |-> l.limits, balances |-> l.balances, loans |-> l.loans,
   tokenBal |-> l.tokenBal, err |-> "none", errArgs |-> <<>>, hop |-> 0,
   paid |-> <<>>, seen |-> <<>>]

Strip(s) ==
  [limits |-> s.limits, balances |-> s.balances, loans |-> s.loans,
   tokenBal |-> s.tokenBal]

\* revert E(args): the call stops with error E.
Fail(s, e, args, i) == [s EXCEPT !.err = e, !.errArgs = args, !.hop = i]

\* Checked arithmetic: every value computed must fit the unsigned word.
Fits(x) == x >= 0 /\ x <= MAX_UINT

AllFit(S) == \A x \in S : Fits(x)

Min(a, b) == IF a < b THEN a ELSE b

\* ----------------------------------------------------------- the contract
\* (variant: the elapsed time is left out of the product)
InterestPerSecond(amount, rate, elapsed) == (amount * rate) \div DENOMINATOR

\* (variant: one more second than has elapsed)
InterestInclusive(amount, rate, elapsed) ==
  (amount * rate * (elapsed + 1)) \div DENOMINATOR

\* interest = loan.amount * loan.interestRatePerSecond * elapsed / DENOMINATOR
Interest(amount, rate, elapsed) == (amount * rate * elapsed) \div DENOMINATOR

RateDelta(amount, rate) == (amount * rate) \div DENOMINATOR

\* (variant: the borrower's owesPerSecond is not raised)
accrueBalancesKeepOwes(bal, lender, borrower, d, interest) ==
  [bal EXCEPT ![lender].owedPerSecond = @ + d,
              ![lender].lent = @ + interest,
              ![borrower].borrowed = @ + interest]

\* updateLoan's additions to the two parties' aggregates.
accrueBalances(bal, lender, borrower, d, interest) ==
  [bal EXCEPT ![lender].owedPerSecond = @ + d,
              ![borrower].owesPerSecond = @ + d,
              ![lender].lent = @ + interest,
              ![borrower].borrowed = @ + interest]

\* (variant: the two balances' timestamps are left as they were)
stampLoanOnly(s, lender, borrower, bal, amount, t) ==
  [s EXCEPT !.loans[lender][borrower] = [@ EXCEPT !.amount = amount,
                                                  !.timestamp = t],
            !.balances = bal]

\* (variant: an empty loan is not stamped)
stampUnlessEmpty(s, lender, borrower, bal, amount, t) ==
  IF amount = 0 THEN s
  ELSE [s EXCEPT !.loans[lender][borrower] = [@ EXCEPT !.amount = amount,
                                                       !.timestamp = t],
                 !.balances = [bal EXCEPT ![lender].timestamp = t,
                                          ![borrower].timestamp = t]]

\* (variant: every account's balance is stamped)
stampEveryBalance(s, lender, borrower, bal, amount, t) ==
  [s EXCEPT !.loans[lender][borrower] = [@ EXCEPT !.amount = amount,
                                                  !.timestamp = t],
            !.balances = [x \in DOMAIN bal |-> [bal[x] EXCEPT !.timestamp = t]]]

\* What updateLoan stores: the loan's new amount, the aggregates, and
\* block.timestamp on the loan and on both parties' balances.
stamp(s, lender, borrower, bal, amount, t) ==
  [s EXCEPT !.loans[lender][borrower] = [@ EXCEPT !.amount = amount,
                                                  !.timestamp = t],
            !.balances = [bal EXCEPT ![lender].timestamp = t,
                                     ![borrower].timestamp = t]]

updateLoan(s, lender, borrower, t, i) ==
  LET loan == s.loans[lender][borrower]
      elapsed == t - loan.timestamp
      interest == Interest(loan.amount, loan.interestRatePerSecond, elapsed)
      d == RateDelta(interest, loan.interestRatePerSecond)
      bal == accrueBalances(s.balances, lender, borrower, d, interest)
  IN  IF s.err # "none" THEN s
      ELSE IF loan.amount > 0
        THEN IF AllFit({elapsed,
                        loan.amount * loan.interestRatePerSecond,
                        loan.amount * loan.interestRatePerSecond * elapsed,
                        loan.amount + interest,
                        interest * loan.interestRatePerSecond,
                        bal[lender].owedPerSecond, bal[borrower].owesPerSecond,
                        bal[lender].lent, bal[borrower].borrowed})
               THEN stamp(s, lender, borrower, bal, loan.amount + interest, t)
               ELSE Fail(s, "Panic", <<>>, i)
        ELSE stamp(s, lender, borrower, s.balances, loan.amount, t)

\* (variant: the quotient is taken for an empty loan too)
MergeAlwaysDivides(loanAmount, added) == TRUE

\* The condition of _borrow's ternary: the merged rate is a quotient unless
\* the loan is empty.
MergeDivides(loanAmount, added) == loanAmount # 0

\* (variant: the rates are added, whatever the amounts)
MergedRateSum(amount, rate, added, ir) == rate + ir

MergedRate(amount, rate, added, ir) ==
  IF ~MergeDivides(amount, added) THEN ir
  ELSE IF amount + added = 0 THEN 0
  ELSE (amount * rate + added * ir) \div (amount + added)

\* (variant: the borrower's borrowed is not raised)
borrowBalancesKeepBorrowed(bal, lender, borrower, d, amount) ==
  [bal EXCEPT ![lender].owedPerSecond = @ + d,
              ![borrower].owesPerSecond = @ + d,
              ![lender].lent = @ + amount]

\* _borrow's additions to the two parties' aggregates.
borrowBalances(bal, lender, borrower, d, amount) ==
  [bal EXCEPT ![lender].owedPerSecond = @ + d,
              ![borrower].owesPerSecond = @ + d,
              ![lender].lent = @ + amount,
              ![borrower].borrowed = @ + amount]

\* (variant: the loan's amount becomes the amount borrowed)
_borrowReplaces(s, lender, borrower, amount, ir, i) ==
  LET loan == s.loans[lender][borrower]
      d == RateDelta(amount, ir)
      newIr == MergedRate(loan.amount, loan.interestRatePerSecond, amount, ir)
      bal == borrowBalances(s.balances, lender, borrower, d, amount)
  IN  IF s.err # "none" THEN s
      ELSE IF AllFit({amount * ir, loan.amount + amount,
                      loan.amount * loan.interestRatePerSecond + amount * ir,
                      bal[lender].owedPerSecond, bal[borrower].owesPerSecond,
                      bal[lender].lent, bal[borrower].borrowed})
        THEN [s EXCEPT !.balances = bal,
                       !.loans[lender][borrower] =
                         [loan EXCEPT !.amount = amount,
                                      !.interestRatePerSecond = newIr]]
        ELSE Fail(s, "Panic", <<>>, i)

_borrow(s, lender, borrower, amount, ir, i) ==
  LET loan == s.loans[lender][borrower]
      d == RateDelta(amount, ir)
      newAmount == loan.amount + amount
      newIr == MergedRate(loan.amount, loan.interestRatePerSecond, amount, ir)
      bal == borrowBalances(s.balances, lender, borrower, d, amount)
  IN  IF s.err # "none" THEN s
      ELSE IF MergeDivides(loan.amount, amount) /\ newAmount = 0
        THEN Fail(s, "DivisionByZero", <<>>, i)
      ELSE IF AllFit({amount * ir, newAmount,
                      loan.amount * loan.interestRatePerSecond,
                      loan.amount * loan.interestRatePerSecond + amount * ir,
                      bal[lender].owedPerSecond, bal[borrower].owesPerSecond,
                      bal[lender].lent, bal[borrower].borrowed})
        THEN [s EXCEPT !.balances = bal,
                       !.loans[lender][borrower] =
                         [loan EXCEPT !.amount = newAmount,
                                      !.interestRatePerSecond = newIr]]
        ELSE Fail(s, "Panic", <<>>, i)

\* (variant: the lender's lent is not reduced)
repayBalancesKeepLent(bal, lender, borrower, d, repaid) ==
  [bal EXCEPT ![lender].owedPerSecond = @ - d,
              ![borrower].owesPerSecond = @ - d,
              ![borrower].borrowed = @ - repaid]

\* _repay's subtractions from the two parties' aggregates.
repayBalances(bal, lender, borrower, d, repaid) ==
  [bal EXCEPT ![lender].owedPerSecond = @ - d,
              ![borrower].owesPerSecond = @ - d,
              ![lender].lent = @ - repaid,
              ![borrower].borrowed = @ - repaid]

\* (variant: the ternary's branches swapped, the larger of the two)
RepaidLarger(s, lender, borrower, offered) ==
  IF offered < s.loans[lender][borrower].amount
    THEN s.loans[lender][borrower].amount
    ELSE offered

\* What _repay returns: the part of the offer the loan absorbs.
Repaid(s, lender, borrower, offered) ==
  Min(offered, s.loans[lender][borrower].amount)

\* (variant: a loan repaid in full loses its rate)
_repayForgetsRate(s, lender, borrower, offered, i) ==
  LET loan == s.loans[lender][borrower]
      repaid == Repaid(s, lender, borrower, offered)
      d == RateDelta(repaid, loan.interestRatePerSecond)
      bal == repayBalances(s.balances, lender, borrower, d, repaid)
  IN  IF s.err # "none" THEN s
      ELSE IF AllFit({repaid * loan.interestRatePerSecond,
                      loan.amount - repaid,
                      s.balances[lender].owedPerSecond - d,
                      bal[borrower].owesPerSecond,
                      bal[lender].lent, bal[borrower].borrowed})
        THEN [s EXCEPT !.balances = bal,
                       !.loans[lender][borrower] =
                         [@ EXCEPT !.amount = @ - repaid,
                                   !.interestRatePerSecond =
                                     IF loan.amount = repaid THEN 0 ELSE @]]
        ELSE Fail(s, "Panic", <<>>, i)

_repay(s, lender, borrower, offered, i) ==
  LET loan == s.loans[lender][borrower]
      repaid == Repaid(s, lender, borrower, offered)
      d == RateDelta(repaid, loan.interestRatePerSecond)
      bal == repayBalances(s.balances, lender, borrower, d, repaid)
  IN  IF s.err # "none" THEN s
      ELSE IF AllFit({repaid * loan.interestRatePerSecond,
                      loan.amount - repaid,
                      s.balances[lender].owedPerSecond - d,
                      bal[borrower].owesPerSecond,
                      bal[lender].lent, bal[borrower].borrowed})
        THEN [s EXCEPT !.balances = bal,
                       !.loans[lender][borrower].amount = @ - repaid]
        ELSE Fail(s, "Panic", <<>>, i)

\* (variant: the arguments swapped)
isTrustedBy(tr, truster, trusted) == <<trusted, truster>> \in tr

\* CIRCLES_HUB.isTrusted(truster, trusted)
isTrusted(tr, truster, trusted) == <<truster, trusted>> \in tr

\* TOKEN moves amount from one holder to another; it aborts when the holder
\* has less than amount (the token's own checked subtraction). The token is
\* code outside the contract: seen keeps the loans and balances it finds in
\* storage when it is called.
transfer(s, from, to, amount, i) ==
  IF s.err # "none" THEN s
  ELSE IF s.tokenBal[from] < amount
    THEN Fail(s, "TokenRevert", <<from, amount>>, i)
    ELSE [s EXCEPT !.tokenBal = [@ EXCEPT ![from] = @ - amount,
                                          ![to] = @ + amount],
                   !.paid = Append(@, <<from, to, amount>>),
                   !.seen = Append(@, [loans |-> s.loans,
                                       balances |-> s.balances])]

\* (variant: one unit over the cap is let through)
OverLendingCapByTwo(lent, lendingCap) == lent > lendingCap + 1

\* balances[sender].lent > limits[sender].lendingCap
OverLendingCap(lent, lendingCap) == lent > lendingCap

\* (variant: one unit over the cap is let through)
OverBorrowingCapByTwo(borrowed, borrowCap) == borrowed > borrowCap + 1

\* balances[receiver].borrowed > limits[receiver].borrowCap
OverBorrowingCap(borrowed, borrowCap) == borrowed > borrowCap

\* (variant: a rate equal to the minimum is refused too)
AtOrUnderLenderMinIR(ir, minLendIR) == ir <= minLendIR

\* irs[i] < limits[sender].minLendIR
UnderLenderMinIR(ir, minLendIR) == ir < minLendIR

\* (variant: a rate one above the maximum is let through)
OverBorrowerMaxIRByTwo(ir, maxBorrowIR) == ir > maxBorrowIR + 1

\* irs[i] > limits[receiver].maxBorrowIR
OverBorrowerMaxIR(ir, maxBorrowIR) == ir > maxBorrowIR

\* irs[i + 1] < irs[i]: the margin would be negative
NegativeMargin(irNext, ir) == irNext < ir

\* (variant: a margin one short of the minimum is let through)
UnderRelayerMarginByTwo(margin, minIRMargin) == margin + 1 < minIRMargin

\* margin < limits[receiver].minIRMargin
UnderRelayerMargin(margin, minIRMargin) == margin < minIRMargin

\* i < path.length - 1: the receiver of hop i relays the loan (hops are
\* numbered from 1, n is the length of the path).
Relays(i, n) == i < n

\* (variant: the trust check comes first)
HopChecksTrustFirst(s, tr, irs, n, sender, receiver, i) ==
  IF s.err # "none" THEN s
  ELSE IF ~isTrusted(tr, sender, receiver)
    THEN Fail(s, "LenderDoesNotTrustBorrower", <<sender, receiver>>, i)
  ELSE IF OverLendingCap(s.balances[sender].lent, s.limits[sender].lendingCap)
    THEN Fail(s, "OverLendingCap", <<sender, s.balances[sender].lent>>, i)
  ELSE IF UnderLenderMinIR(irs[i], s.limits[sender].minLendIR)
    THEN Fail(s, "UnderLenderMinIR", <<sender, irs[i]>>, i)
  ELSE IF Relays(i, n) /\ OverBorrowingCap(s.balances[receiver].borrowed,
                                           s.limits[receiver].borrowCap)
    THEN Fail(s, "OverBorrowingCap",
              <<receiver, s.balances[receiver].borrowed>>, i)
  ELSE IF Relays(i, n)
            /\ OverBorrowerMaxIR(irs[i], s.limits[receiver].maxBorrowIR)
    THEN Fail(s, "OverBorrowerMaxIR", <<receiver, irs[i]>>, i)
  ELSE IF Relays(i, n) /\ NegativeMargin(irs[i + 1], irs[i])
    THEN Fail(s, "UnderRelayerMargin", <<receiver, 0>>, i)
  ELSE IF Relays(i, n)
            /\ UnderRelayerMargin(irs[i + 1] - irs[i],
                                  s.limits[receiver].minIRMargin)
    THEN Fail(s, "UnderRelayerMargin", <<receiver, irs[i + 1] - irs[i]>>, i)
  ELSE s

\* The checks of one hop of borrow, in the order of the code.
HopChecks(s, tr, irs, n, sender, receiver, i) ==
  IF s.err # "none" THEN s
  ELSE IF OverLendingCap(s.balances[sender].lent, s.limits[sender].lendingCap)
    THEN Fail(s, "OverLendingCap", <<sender, s.balances[sender].lent>>, i)
  ELSE IF UnderLenderMinIR(irs[i], s.limits[sender].minLendIR)
    THEN Fail(s, "UnderLenderMinIR", <<sender, irs[i]>>, i)
  ELSE IF Relays(i, n) /\ OverBorrowingCap(s.balances[receiver].borrowed,
                                           s.limits[receiver].borrowCap)
    THEN Fail(s, "OverBorrowingCap",
              <<receiver, s.balances[receiver].borrowed>>, i)
  ELSE IF Relays(i, n)
            /\ OverBorrowerMaxIR(irs[i], s.limits[receiver].maxBorrowIR)
    THEN Fail(s, "OverBorrowerMaxIR", <<receiver, irs[i]>>, i)
  ELSE IF Relays(i, n) /\ NegativeMargin(irs[i + 1], irs[i])
    THEN Fail(s, "UnderRelayerMargin", <<receiver, 0>>, i)
  ELSE IF Relays(i, n)
            /\ UnderRelayerMargin(irs[i + 1] - irs[i],
                                  s.limits[receiver].minIRMargin)
    THEN Fail(s, "UnderRelayerMargin", <<receiver, irs[i + 1] - irs[i]>>, i)
  ELSE IF ~isTrusted(tr, sender, receiver)
    THEN Fail(s, "LenderDoesNotTrustBorrower", <<sender, receiver>>, i)
  ELSE s

\* (variant: every hop lends to the caller)
ReceiverIsCaller(path, caller, i) == caller

\* The receiver of hop i: the next path element, the caller for the last hop.
Receiver(path, caller, i) == IF i < Len(path) THEN path[i + 1] ELSE caller

\* The loop of borrow, hops i to n (hops are numbered from 1).
RECURSIVE BorrowHops(_, _, _, _, _, _, _, _, _)
BorrowHops(s, tr, t, caller, amount, path, irs, i, n) ==
  IF i > n \/ s.err # "none" THEN s
  ELSE LET sender == path[i]
           receiver == Receiver(path, caller, i)
           s1 == updateLoan(s, sender, receiver, t, i)
           s2 == _borrow(s1, sender, receiver, amount, irs[i], i)
           s3 == HopChecks(s2, tr, irs, Len(path), sender, receiver, i)
       IN  BorrowHops(s3, tr, t, caller, amount, path, irs, i + 1, n)

\* (variant: what the Safe reports is not looked at)
execTransferUnchecked(s, safe, to, amount) ==
  LET r == transfer(s, safe, to, amount, 0)
  IN  IF s.err # "none" \/ r.err # "none" THEN s ELSE r

\* ISafe(path[0]).execTransactionFromModule(TOKEN, 0, transfer(caller, amount)):
\* the Safe reports whether the token call went through.
execTransfer(s, safe, to, amount) ==
  LET r == transfer(s, safe, to, amount, 0)
  IN  IF s.err # "none" THEN s
      ELSE IF r.err # "none" THEN Fail(s, "TransferFailed", <<>>, 0)
      ELSE r

\* (variant: the two lengths are reported in the other order)
borrowLengthsSwapped(l, tr, t, caller, amount, path, irs) ==
  LET s == Start(l)
  IN  IF Len(path) = 0 THEN Fail(s, "EmptyPath", <<>>, 0)
      ELSE IF Len(path) # Len(irs)
        THEN Fail(s, "DifferentLengthsPathIRs", <<Len(irs), Len(path)>>, 0)
      ELSE execTransfer(BorrowHops(s, tr, t, caller, amount, path, irs, 1,
                                   Len(path)),
                        path[1], caller, amount)

\* (variant: the lengths are compared before the path is looked at)
borrowLengthsFirst(l, tr, t, caller, amount, path, irs) ==
  LET s == Start(l)
  IN  IF Len(path) # Len(irs)
        THEN Fail(s, "DifferentLengthsPathIRs", <<Len(path), Len(irs)>>, 0)
      ELSE IF Len(path) = 0 THEN Fail(s, "EmptyPath", <<>>, 0)
      ELSE execTransfer(BorrowHops(s, tr, t, caller, amount, path, irs, 1,
                                   Len(path)),
                        path[1], caller, amount)

borrow(l, tr, t, caller, amount, path, irs) ==
  LET s == Start(l)
  IN  IF Len(path) = 0 THEN Fail(s, "EmptyPath", <<>>, 0)
      ELSE IF Len(path) # Len(irs)
        THEN Fail(s, "DifferentLengthsPathIRs", <<Len(path), Len(irs)>>, 0)
      ELSE execTransfer(BorrowHops(s, tr, t, caller, amount, path, irs, 1,
                                   Len(path)),
                        path[1], caller, amount)

\* (variant: the part a link does not absorb is paid at the first link too)
PaysRelayerAnyLink(amount, repaid, i) == amount - repaid > 0

\* (variant: no relayer is paid)
PaysRelayerNever(amount, repaid, i) == FALSE

\* amount - repaid > 0 && i > 0: what link i does not absorb is paid in cash
\* to its borrower, except at the first link (links are numbered from 1).
PaysRelayer(amount, repaid, i) == amount - repaid > 0 /\ i > 1

\* The loop of repay from link i on: link i is the loan path[i+1] gave path[i].
RECURSIVE RepayHops(_, _, _, _, _, _)
RepayHops(s, t, caller, amount, path, i) ==
  IF s.err # "none" THEN s
  ELSE IF i > Len(path) - 1
    THEN IF amount > 0 THEN transfer(s, caller, path[Len(path)], amount, i)
         ELSE s
  ELSE LET borrower == path[i]
           lender == path[i + 1]
           s1 == updateLoan(s, lender, borrower, t, i)
           repaid == Repaid(s1, lender, borrower, amount)
           s2 == _repay(s1, lender, borrower, amount, i)
           s3 == IF PaysRelayer(amount, repaid, i)
                   THEN transfer(s2, caller, borrower, amount - repaid, i)
                   ELSE s2
       IN  RepayHops(s3, t, caller, repaid, path, i + 1)

\* (variant: a path of one account does nothing)
repayNothingAlone(l, t, caller, amount, path) ==
  LET s == Start(l)
  IN  IF Len(path) = 0 THEN Fail(s, "EmptyPath", <<>>, 0)
      ELSE IF Len(path) = 1 THEN s
      ELSE RepayHops(s, t, caller, amount, path, 1)

\* (variant: a lender whose lendingCap is 0 is not repaid)
repayWithinCap(l, t, caller, amount, path) ==
  LET s == Start(l)
  IN  IF Len(path) = 0 THEN Fail(s, "EmptyPath", <<>>, 0)
      ELSE IF Len(path) > 1 /\ l.limits[path[2]].lendingCap = 0
        THEN Fail(s, "OverLendingCap", <<path[2], 0>>, 1)
      ELSE RepayHops(s, t, caller, amount, path, 1)

repay(l, t, caller, amount, path) ==
  LET s == Start(l)
  IN  IF Len(path) = 0 THEN Fail(s, "EmptyPath", <<>>, 0)
      ELSE RepayHops(s, t, caller, amount, path, 1)

\* The client's validatePath. irs[i] of a list too short is undefined: a
\* comparison with it is false, a subtraction with it throws.
HasRate(irs, i) == i <= Len(irs)

\* (variant: a rate one below the minimum is let through)
RateBelowByTwo(ir, minLendIR) == ir + 1 < minLendIR

\* irs[i] < senderSettings.minLendIR
RateBelow(ir, minLendIR) == ir < minLendIR

\* The loop of validatePath from hop i on (hops are numbered from 1): known
\* is the set of accounts the settings map has an entry for, lim the
\* entries. The outcome is "valid", "invalid" or "throws".
RECURSIVE validateFrom(_, _, _, _, _, _)
validateFrom(path, irs, known, lim, borrowerAddress, i) ==
  IF i > Len(path) THEN "valid"
  ELSE
    LET sender == path[i]
        receiver == IF i < Len(path) THEN path[i + 1] ELSE borrowerAddress
        rest == validateFrom(path, irs, known, lim, borrowerAddress, i + 1)
    IN  IF sender \notin known THEN "invalid"
        ELSE IF HasRate(irs, i) /\ RateBelow(irs[i], lim[sender].minLendIR)
          THEN "invalid"
        ELSE IF i < Len(path)
          THEN IF receiver \notin known THEN "invalid"
               ELSE IF lim[receiver].borrowCap = 0 THEN "invalid"
               ELSE IF HasRate(irs, i) /\ irs[i] > lim[receiver].maxBorrowIR
                 THEN "invalid"
               ELSE IF ~HasRate(irs, i) \/ ~HasRate(irs, i + 1) THEN "throws"
               ELSE IF irs[i + 1] - irs[i] < lim[receiver].minIRMargin
                 THEN "invalid"
               ELSE IF irs[i + 1] < irs[i] THEN "invalid"
               ELSE rest
        ELSE rest

validatePath(path, irs, known, lim, borrowerAddress) ==
  validateFrom(path, irs, known, lim, borrowerAddress, 1)

\* (variant: a margin already set is kept)
setSettingsKeepMargin(l, caller, lim) ==
  [Start(l) EXCEPT !.limits[caller] =
     [lim EXCEPT !.minIRMargin =
        IF l.limits[caller].minIRMargin > 0 THEN l.limits[caller].minIRMargin
        ELSE @]]

\* setSettings(_limits): limits[msg.sender] = _limits
setSettings(l, caller, lim) == [Start(l) EXCEPT !.limits[caller] = lim]

\* ------------------------------------------------------------- the actions
\* The record of a call.
Call(op, caller, amount, path, irs, a, b, lim, s) ==
  [op |-> op, caller |-> caller, amount |-> amount, path |-> path, irs |-> irs,
   lender |-> a, borrower |-> b, settings |-> lim, err |-> s.err, errArgs |-> s.errArgs,
   hop |-> s.hop, paid |-> s.paid, seen |-> s.seen, time |-> now,
   pre |-> Ledger]

\* (variant: what the call wrote before it stopped is kept)
CommitPartial(s) == Strip(s)

\* A call that stops with an error is rolled back: storage keeps the values
\* it had before the call.
Commit(s) == IF s.err = "none" THEN Strip(s) ELSE Ledger

\* The outcome of a call: storage as the call leaves it.
Store(s) ==
  /\ limits' = Commit(s).limits
  /\ balances' = Commit(s).balances
  /\ loans' = Commit(s).loans
  /\ tokenBal' = Commit(s).tokenBal

\* A call on the ledger is counted when it went through.
Count(s) == calls' = IF s.err = "none" THEN calls + 1 ELSE calls

Idle ==
  [op |-> "idle", caller |-> 0, amount |-> 0, path |-> <<>>, irs |-> <<>>,
   lender |-> 0, borrower |-> 0, settings |-> ZeroLimits, err |-> "none",
   errArgs |-> <<>>, hop |-> 0, paid |-> <<>>, seen |-> <<>>, time |-> 0, pre |-> <<>>]

Init ==
  /\ limits = [a \in Addr |-> ZeroLimits]
  /\ balances = [a \in Addr |-> ZeroBalance]
  /\ loans = [a \in Addr |-> [b \in Addr |-> ZeroLoan]]
  /\ now = 0
  /\ trust = HubTrust
  /\ tokenBal = [a \in Addr |-> InitTokens]
  /\ calls = 0
  /\ last = Idle

SetSettings ==
  /\ last = Idle
  /\ calls < MaxCalls
  /\ \E in \in SettingsInputs :
       \E s \in {setSettings(Ledger, in[1], in[2])} :
         /\ Store(s)
         /\ last' = Call("setSettings", in[1], 0, <<>>, <<>>, 0, 0, in[2], s)
         /\ UNCHANGED <<now, trust, calls>>

Borrow ==
  /\ last = Idle
  /\ calls < MaxCalls
  /\ \E in \in BorrowInputs :
       \E s \in {borrow(Ledger, trust, now, in[1], in[2], in[3], in[4])} :
         /\ Count(s)
         /\ Store(s)
         /\ last' = Call("borrow", in[1], in[2], in[3], in[4], 0, 0, ZeroLimits, s)
         /\ UNCHANGED <<now, trust>>

Repay ==
  /\ last = Idle
  /\ calls < MaxCalls
  /\ \E in \in RepayInputs :
       \E s \in {repay(Ledger, now, in[1], in[2], in[3])} :
         /\ Count(s)
         /\ Store(s)
         /\ last' = Call("repay", in[1], in[2], in[3], <<>>, 0, 0, ZeroLimits, s)
         /\ UNCHANGED <<now, trust>>

\* updateLoan is public: anyone may accrue any pair.
Accrue ==
  /\ last = Idle
  /\ calls < MaxCalls
  /\ \E in \in AccrueInputs :
       \E s \in {updateLoan(Start(Ledger), in[1], in[2], now, 0)} :
         /\ Count(s)
         /\ Store(s)
         /\ last' = Call("updateLoan", 0, 0, <<>>, <<>>, in[1], in[2],
                          ZeroLimits, s)
         /\ UNCHANGED <<now, trust>>

\* Time passes between transactions.
Warp ==
  /\ last = Idle
  /\ calls < MaxCalls
  /\ now < MaxTime
  /\ now' = now + 1
  /\ UNCHANGED <<limits, balances, loans, trust, tokenBal, calls, last>>

\* The transaction is over; the next one may start.
Return ==
  /\ last # Idle
  /\ last' = Idle
  /\ UNCHANGED <<limits, balances, loans, now, trust, tokenBal, calls>>

Next == SetSettings \/ Borrow \/ Repay \/ Accrue \/ Warp \/ Return

Spec == Init /\ [][Next]_vars

\* ------------------------------------------------------------ the claims
\* The errors a hop of borrow stops with.
HopErrors ==
  {"OverLendingCap", "UnderLenderMinIR", "OverBorrowingCap",
   "OverBorrowerMaxIR", "UnderRelayerMargin", "LenderDoesNotTrustBorrower"}

RECURSIVE Sum(_, _)
Sum(f, S) ==
  IF S = {} THEN 0
  ELSE LET x == CHOOSE y \in S : TRUE IN f[x] + Sum(f, S \ {x})

\* The amount a loan of ledger l has once accrued at time t.
Accrued(l, lender, borrower, t) ==
  LET loan == l.loans[lender][borrower]
  IN  loan.amount
        + (loan.amount * loan.interestRatePerSecond * (t - loan.timestamp))
            \div DENOMINATOR

\* C1: a borrow that stops at the check of any hop leaves every Loan, every
\* UserBalance and every UserLimits equal to its value before the call, the
\* loans and balances of the hops accrued and merged before that hop too.
C1_AllOrNothingBorrow ==
  (last.op = "borrow" /\ last.err \in HopErrors) =>
    /\ loans = last.pre.loans
    /\ balances = last.pre.balances
    /\ limits = last.pre.limits

\* A borrow stopped at its second hop, after its first hop had accrued
\* interest on a loan and merged into it.
C1_Witness ==
  /\ last.op = "borrow"
  /\ last.err \in HopErrors
  /\ last.hop = 2
  /\ last.amount > 0
  /\ Accrued(last.pre, last.path[1], last.path[2], last.time)
       > last.pre.loans[last.path[1]][last.path[2]].amount

\* C2: in every reachable state, for every account, lent is the sum of the
\* amounts of the loans it gave and borrowed the sum of the loans it took.
C2_LentBorrowedAreSums ==
  \A x \in Addr :
    /\ balances[x].lent = Sum([b \in Addr |-> loans[x][b].amount], Addr)
    /\ balances[x].borrowed = Sum([l \in Addr |-> loans[l][x].amount], Addr)

\* After a repay that went through, at a later time, an account is lender of
\* one loan and borrower of another.
C2_Witness ==
  /\ last.op = "repay"
  /\ last.err = "none"
  /\ last.time > 0
  /\ \E x \in Addr :
       /\ balances[x].lent > 0
       /\ balances[x].borrowed > 0
       /\ balances[x].lent # last.pre.balances[x].lent

\* C3: in every reachable state, for every account, owedPerSecond is the sum
\* of amount * rate / D over the loans it gave and owesPerSecond the sum over
\* the loans it took.
C3_RateTotalsAreSums ==
  \A x \in Addr :
    /\ balances[x].owedPerSecond =
         Sum([b \in Addr |->
                (loans[x][b].amount * loans[x][b].interestRatePerSecond)
                  \div DENOMINATOR], Addr)
    /\ balances[x].owesPerSecond =
         Sum([l \in Addr |->
                (loans[l][x].amount * loans[l][x].interestRatePerSecond)
                  \div DENOMINATOR], Addr)

\* The loans on a repay path, <<lender, borrower>>, link i being the loan
\* path[i + 1] gave path[i].
Links(path) == {<<path[i + 1], path[i]>> : i \in 1 .. Len(path) - 1}

DistinctLinks(path) == Cardinality(Links(path)) = Len(path) - 1

\* The cash the last call moved, in all and to one account.
RECURSIVE SumSeq(_)
SumSeq(q) == IF q = <<>> THEN 0 ELSE Head(q) + SumSeq(Tail(q))

CashPaid == SumSeq([i \in 1 .. Len(last.paid) |-> last.paid[i][3]])

CashTo(x) ==
  SumSeq([i \in 1 .. Len(last.paid) |->
            IF last.paid[i][2] = x THEN last.paid[i][3] ELSE 0])

\* By how much the last call reduced the debts on its path, each measured
\* from the loan's accrued amount.
DebtReduction ==
  Sum([k \in Links(last.path) |->
         Accrued(last.pre, k[1], k[2], last.time) - loans[k[1]][k[2]].amount],
      Links(last.path))

RepayWent == last.op = "repay" /\ last.err = "none" /\ Len(last.path) >= 2

\* C4 as stated: after a repay that went through, the debt reduction along
\* the chain plus the cash paid to the final path element plus the cash paid
\* to the relayers is the amount offered.
C4_ConservationAsStated ==
  RepayWent => DebtReduction + CashPaid = last.amount

\* C4, amended: after a repay that went through, the cash paid to the final
\* path element plus the cash paid to the relayers is the reduction of the
\* first loan of the chain, min(A, its accrued amount), hence at most A; what
\* A exceeds it by is not collected; no loan amount is negative.
C4_CashIsFirstReduction ==
  RepayWent =>
    /\ CashPaid
         = Min(last.amount,
               Accrued(last.pre, last.path[2], last.path[1], last.time))
    /\ CashPaid <= last.amount
    /\ DistinctLinks(last.path) =>
         Accrued(last.pre, last.path[2], last.path[1], last.time)
           - loans[last.path[2]][last.path[1]].amount = CashPaid
    /\ \A l \in Addr, b \in Addr : loans[l][b].amount >= 0

\* A repay along a chain of two loans that offers more than the first loan
\* owes, and pays a relayer and the final lender.
C4_Witness ==
  /\ RepayWent
  /\ Len(last.path) = 3
  /\ last.amount > Accrued(last.pre, last.path[2], last.path[1], last.time)
  /\ Len(last.paid) = 2

\* What link k of the last repay absorbs: r_k = min(r_(k-1), accrued amount
\* of the loan path[k + 1] gave path[k]), r_0 being the amount offered.
RECURSIVE Absorbed(_)
Absorbed(k) ==
  IF k = 0 THEN last.amount
  ELSE Min(Absorbed(k - 1),
           Accrued(last.pre, last.path[k + 1], last.path[k], last.time))

\* The cash transfers to the relayers path[k], k from the second element to
\* the last but one, in path order.
RECURSIVE RelayerCash(_)
RelayerCash(k) ==
  IF k > Len(last.path) - 1 THEN <<>>
  ELSE (IF Absorbed(k - 1) - Absorbed(k) > 0
          THEN << <<last.caller, last.path[k],
                    Absorbed(k - 1) - Absorbed(k)>> >>
          ELSE <<>>) \o RelayerCash(k + 1)

\* The cash transfer to the final path element.
FinalCash ==
  IF Absorbed(Len(last.path) - 1) > 0
    THEN << <<last.caller, last.path[Len(last.path)],
              Absorbed(Len(last.path) - 1)>> >>
    ELSE <<>>

\* Four accounts in a chain: 1 owes 2 four units, 2 owes 3 twelve, 3 owes 4
\* one, all at rate 1 (the debts 20, 60 and 5 of testRepayMultiHopPath in
\* units of five); account 1 holds six tokens.
InstanceLedger ==
  LET debt(l, b) == IF <<l, b>> = <<2, 1>> THEN 4
                    ELSE IF <<l, b>> = <<3, 2>> THEN 12
                    ELSE IF <<l, b>> = <<4, 3>> THEN 1 ELSE 0
      given(x) == debt(x, 1) + debt(x, 2) + debt(x, 3) + debt(x, 4)
      taken(x) == debt(1, x) + debt(2, x) + debt(3, x) + debt(4, x)
      owed(x) == RateDelta(debt(x, 1), 1) + RateDelta(debt(x, 2), 1)
                   + RateDelta(debt(x, 3), 1) + RateDelta(debt(x, 4), 1)
      owes(x) == RateDelta(debt(1, x), 1) + RateDelta(debt(2, x), 1)
                   + RateDelta(debt(3, x), 1) + RateDelta(debt(4, x), 1)
  IN  [limits |-> [x \in 1 .. 4 |-> ZeroLimits],
       balances |-> [x \in 1 .. 4 |->
                       [lent |-> given(x), owedPerSecond |-> owed(x),
                        borrowed |-> taken(x), owesPerSecond |-> owes(x),
                        timestamp |-> 0]],
       loans |-> [l \in 1 .. 4 |-> [b \in 1 .. 4 |->
                    [amount |-> debt(l, b),
                     interestRatePerSecond |-> IF debt(l, b) > 0 THEN 1 ELSE 0,
                     timestamp |-> 0]]],
       tokenBal |-> [x \in 1 .. 4 |-> IF x = 1 THEN 6 ELSE 0]]

\* The instance of the claim, in units of five: offering 6 along the chain
\* leaves the debts 0, 8 and 0 and pays 3 to the third account, 1 to the last.
RepayInstance ==
  LET s == repay(InstanceLedger, 0, 1, 6, <<1, 2, 3, 4>>)
  IN  /\ s.err = "none"
      /\ s.loans[2][1].amount = 0
      /\ s.loans[3][2].amount = 8
      /\ s.loans[4][3].amount = 0
      /\ s.paid = << <<1, 3, 3>>, <<1, 4, 1>> >>
      /\ s.tokenBal = [x \in 1 .. 4 |->
                         IF x = 1 THEN 2 ELSE IF x = 3 THEN 3
                         ELSE IF x = 4 THEN 1 ELSE 0]

\* C5: after repay(A, path) over n >= 2 accounts went through, with r_0 =
\* min(A, accrued first loan) and r_k = min(r_(k-1), accrued loan of link k),
\* each loan on the path is its accrued amount less r_k, the caller has paid
\* r_(k-1) - r_k in cash to each intermediate account where that is positive
\* and then the last r to the final account where positive, and nothing else;
\* the instance with debts 20, 60, 5 and A = 30 comes out as stated.
C5_CascadingRepay ==
  /\ RepayInstance
  /\ (RepayWent /\ DistinctLinks(last.path)) =>
       /\ \A k \in 1 .. Len(last.path) - 1 :
            loans[last.path[k + 1]][last.path[k]].amount
              = Accrued(last.pre, last.path[k + 1], last.path[k], last.time)
                  - Absorbed(k)
       /\ last.paid = RelayerCash(2) \o FinalCash
       /\ \A x \in Addr :
            tokenBal[x] = last.pre.tokenBal[x] + CashTo(x)
                            - (IF x = last.caller THEN CashPaid ELSE 0)

\* A repay along two loans, the second smaller than the first after interest
\* accrued on the first, so that the relayer and the final lender are paid.
C5_Witness ==
  /\ RepayWent
  /\ Len(last.path) = 3
  /\ Absorbed(2) < Absorbed(1)
  /\ Absorbed(2) > 0
  /\ Accrued(last.pre, last.path[2], last.path[1], last.time)
       > last.pre.loans[last.path[2]][last.path[1]].amount

\* Every account trusts every account.
AllTrust == Addr \X Addr

\* The hops of the last borrow whose sender the hub does not report as
\* trusting its receiver.
UntrustedHops ==
  {i \in 1 .. Len(last.path) :
     <<last.path[i], Receiver(last.path, last.caller, i)>> \notin trust}

\* The last call is a borrow that goes through every hop when every account
\* trusts every account: its path, rates and limits are valid at every hop.
OtherwiseValid ==
  /\ last.op = "borrow"
  /\ Len(last.path) > 0
  /\ Len(last.path) = Len(last.irs)
  /\ BorrowHops(Start(last.pre), AllTrust, last.time, last.caller,
                last.amount, last.path, last.irs, 1, Len(last.path)).err
       = "none"

\* C6: a borrow whose path, rates and limits are valid at every hop stops
\* with LenderDoesNotTrustBorrower exactly when the hub reports for some hop
\* that the sender does not trust the receiver, and it then reports the pair
\* of the first such hop.
C6_TrustGating ==
  OtherwiseValid =>
    /\ (last.err = "LenderDoesNotTrustBorrower") <=> (UntrustedHops # {})
    /\ UntrustedHops # {} =>
         LET i == CHOOSE j \in UntrustedHops :
                    \A k \in UntrustedHops : j <= k
         IN  /\ last.hop = i
             /\ last.errArgs
                  = <<last.path[i], Receiver(last.path, last.caller, i)>>

\* A valid borrow over two hops, neither sender trusting its receiver, stopped
\* at the first.
C6_Witness ==
  /\ OtherwiseValid
  /\ UntrustedHops = {1, 2}
  /\ last.err = "LenderDoesNotTrustBorrower"
  /\ last.hop = 1

\* The last call is an updateLoan that returned.
AccrueWent == last.op = "updateLoan" /\ last.err = "none"

\* The loan the last updateLoan was called for, before and after the call.
LoanBefore == last.pre.loans[last.lender][last.borrower]

LoanAfter == loans[last.lender][last.borrower]

\* amount * rate * (now - loan.timestamp) / D for that loan.
InterestDue ==
  (LoanBefore.amount * LoanBefore.interestRatePerSecond
     * (last.time - LoanBefore.timestamp)) \div DENOMINATOR

\* C7: updateLoan(lender, borrower) at time now on a loan with amount > 0
\* adds interest = amount * rate * (now - loan.timestamp) / D to the loan's
\* amount, the lender's lent and the borrower's borrowed, adds
\* interest * rate / D to the lender's owedPerSecond and the borrower's
\* owesPerSecond, keeps the rate, sets the loan's and both balances'
\* timestamp to now, and touches nothing else.
C7_AccrualFormula ==
  (AccrueWent /\ LoanBefore.amount > 0) =>
    LET l == last.lender
        b == last.borrower
        interest == InterestDue
        d == (interest * LoanBefore.interestRatePerSecond) \div DENOMINATOR
    IN  /\ LoanAfter.amount = LoanBefore.amount + interest
        /\ LoanAfter.interestRatePerSecond = LoanBefore.interestRatePerSecond
        /\ LoanAfter.timestamp = last.time
        /\ balances[l].lent = last.pre.balances[l].lent + interest
        /\ balances[b].borrowed = last.pre.balances[b].borrowed + interest
        /\ balances[l].owedPerSecond
             = last.pre.balances[l].owedPerSecond + d
        /\ balances[b].owesPerSecond
             = last.pre.balances[b].owesPerSecond + d
        /\ balances[l].timestamp = last.time
        /\ balances[b].timestamp = last.time
        /\ l # b => /\ balances[l].borrowed = last.pre.balances[l].borrowed
                    /\ balances[l].owesPerSecond
                         = last.pre.balances[l].owesPerSecond
                    /\ balances[b].lent = last.pre.balances[b].lent
                    /\ balances[b].owedPerSecond
                         = last.pre.balances[b].owedPerSecond
        /\ \A x \in Addr \ {l, b} : balances[x] = last.pre.balances[x]
        /\ \A x \in Addr, y \in Addr :
             <<x, y>> # <<l, b>> => loans[x][y] = last.pre.loans[x][y]
        /\ limits = last.pre.limits
        /\ tokenBal = last.pre.tokenBal

\* An updateLoan two seconds after the loan was last touched, with interest
\* that differs from one second's and raises the per-second totals.
C7_Witness ==
  /\ AccrueWent
  /\ LoanBefore.amount > 0
  /\ last.time - LoanBefore.timestamp = 2
  /\ InterestDue > 0
  /\ balances[last.lender].owedPerSecond
       > last.pre.balances[last.lender].owedPerSecond

\* C8: an updateLoan called when no time has elapsed since the loan was last
\* accrued leaves every Loan and every UserBalance as it was; and in every
\* state between calls, for every pair, the ledger after a second updateLoan
\* straight after a first one is the ledger the first left (a second call
\* that aborts leaves it by being rolled back).
C8_AccrueTwiceIsOnce ==
  /\ (last.op = "updateLoan" /\ LoanBefore.timestamp = last.time) =>
       /\ loans = last.pre.loans
       /\ balances = last.pre.balances
  /\ last = Idle =>
       \A l \in Addr, b \in Addr :
         LET first == updateLoan(Start(Ledger), l, b, now, 0)
             second == updateLoan(first, l, b, now, 0)
         IN  first.err = "none" =>
               (IF second.err = "none" THEN Strip(second) ELSE Strip(first))
                 = Strip(first)

\* An updateLoan on a loan with a debt and a rate, at a time later than 0,
\* that had already been accrued at that time.
C8_Witness ==
  /\ AccrueWent
  /\ last.time > 0
  /\ LoanBefore.timestamp = last.time
  /\ LoanBefore.amount > 0
  /\ LoanBefore.interestRatePerSecond > 0

\* The loans of the hops of a borrow, <<sender, receiver>>.
Hops(path, caller) ==
  {<<path[i], Receiver(path, caller, i)>> : i \in 1 .. Len(path)}

DistinctHops(path, caller) == Cardinality(Hops(path, caller)) = Len(path)

\* The last call is a borrow that went through.
BorrowWent == last.op = "borrow" /\ last.err = "none"

\* The loan of hop i of the last borrow, before and after the call, and its
\* amount accrued at the time of the call.
HopLoanBefore(i) ==
  last.pre.loans[last.path[i]][Receiver(last.path, last.caller, i)]

HopLoanAfter(i) == loans[last.path[i]][Receiver(last.path, last.caller, i)]

HopAccrued(i) ==
  Accrued(last.pre, last.path[i], Receiver(last.path, last.caller, i),
          last.time)

\* C9: a borrow that went through leaves the loan of each hop, whose accrued
\* amount was a and rate ra, with amount a + b and, when a > 0, the rate
\* (a * ra + b * r) / (a + b), when a = 0 the rate r of the hop; and no
\* borrow stops on a division by zero, one of amount 0 included.
C9_WeightedRateMerge ==
  /\ last.op = "borrow" => last.err # "DivisionByZero"
  /\ (BorrowWent /\ DistinctHops(last.path, last.caller)) =>
       \A i \in 1 .. Len(last.path) :
         LET a == HopAccrued(i)
             ra == HopLoanBefore(i).interestRatePerSecond
             b == last.amount
             r == last.irs[i]
         IN  /\ HopLoanAfter(i).amount = a + b
             /\ HopLoanAfter(i).interestRatePerSecond
                  = IF a > 0 THEN (a * ra + b * r) \div (a + b) ELSE r
             /\ HopLoanAfter(i).timestamp = last.time

\* A borrow that went through and merged into a loan with a debt, at a rate
\* that is neither the loan's old rate nor kept by the loan.
C9_Witness ==
  /\ BorrowWent
  /\ last.amount > 0
  /\ HopAccrued(1) > 0
  /\ HopLoanBefore(1).interestRatePerSecond # last.irs[1]
  /\ HopLoanAfter(1).interestRatePerSecond
       # HopLoanBefore(1).interestRatePerSecond

\* balances[sender].lent at the check of hop i of the last borrow: what the
\* sender had lent before the call, plus, for each hop up to i it is the
\* sender of, the interest accrued on that hop's loan and the amount.
LentAtHop(i) ==
  last.pre.balances[last.path[i]].lent
    + Sum([j \in 1 .. i |->
             IF last.path[j] = last.path[i]
               THEN HopAccrued(j) - HopLoanBefore(j).amount + last.amount
               ELSE 0], 1 .. i)

\* The last borrow reached the lending cap check of hop i: it has hops, no
\* earlier hop stopped it and the accrual and merge of hop i did not abort.
ReachedCapCheck(i) ==
  /\ last.op = "borrow"
  /\ Len(last.path) > 0
  /\ Len(last.path) = Len(last.irs)
  /\ i \in 1 .. Len(last.path)
  /\ DistinctHops(last.path, last.caller)
  /\ last.err = "none" \/ last.hop = 0 \/ last.hop >= i
  /\ ~(last.hop = i /\ last.err \in {"Panic", "DivisionByZero"})

\* C10: when hop i of a borrow is reached and the sender's lent, interest
\* accrued so far and the merged amount included, exceeds its lendingCap,
\* the borrow stops with OverLendingCap(sender, that lent) at hop i;
\* OverLendingCap is raised only then; and after a borrow that went through
\* every sender on the path has lent <= lendingCap.
C10_LendingCap ==
  /\ \A i \in 1 .. Len(last.path) :
       (ReachedCapCheck(i)
          /\ LentAtHop(i) > last.pre.limits[last.path[i]].lendingCap) =>
         /\ last.err = "OverLendingCap"
         /\ last.hop = i
         /\ last.errArgs = <<last.path[i], LentAtHop(i)>>
  /\ (last.op = "borrow" /\ last.err = "OverLendingCap") =>
       /\ last.errArgs[1] = last.path[last.hop]
       /\ last.errArgs[2] > last.pre.limits[last.errArgs[1]].lendingCap
  /\ BorrowWent =>
       \A i \in 1 .. Len(last.path) :
         balances[last.path[i]].lent <= limits[last.path[i]].lendingCap

\* A borrow stopped at its second hop because interest accrued on the second
\* sender's loan, with the amount, took its lent over the cap.
C10_Witness ==
  /\ last.op = "borrow"
  /\ last.err = "OverLendingCap"
  /\ last.hop = 2
  /\ HopAccrued(2) > HopLoanBefore(2).amount
  /\ last.pre.balances[last.path[2]].lent + last.amount
       <= last.pre.limits[last.path[2]].lendingCap
  /\ last.errArgs = <<last.path[2], LentAtHop(2)>>

\* The last borrow reached, at hop i, the check that comes after the checks
\* raising the errors in earlier: it has hops and as many rates, no earlier
\* hop stopped it, and at hop i neither the arithmetic nor an earlier check.
ReachedCheck(i, earlier) ==
  /\ last.op = "borrow"
  /\ Len(last.path) > 0
  /\ Len(last.path) = Len(last.irs)
  /\ i \in 1 .. Len(last.path)
  /\ last.err = "none" \/ last.hop = 0 \/ last.hop >= i
  /\ ~(last.hop = i /\ last.err \in {"Panic", "DivisionByZero"} \cup earlier)

\* C11: when hop i of a borrow is reached, its lending cap check passed and
\* rates[i] is below the sender's minLendIR, the borrow stops with
\* UnderLenderMinIR(sender, rates[i]) at hop i; the error is raised only for
\* a rate below the minimum, an equal rate is accepted; and in a borrow that
\* went through every hop's rate is at least its sender's minLendIR.
C11_LenderMinRate ==
  /\ \A i \in 1 .. Len(last.path) :
       (ReachedCheck(i, {"OverLendingCap"})
          /\ last.irs[i] < last.pre.limits[last.path[i]].minLendIR) =>
         /\ last.err = "UnderLenderMinIR"
         /\ last.hop = i
         /\ last.errArgs = <<last.path[i], last.irs[i]>>
  /\ (last.op = "borrow" /\ last.err = "UnderLenderMinIR") =>
       last.irs[last.hop] < last.pre.limits[last.path[last.hop]].minLendIR
  /\ BorrowWent =>
       \A i \in 1 .. Len(last.path) :
         last.irs[i] >= limits[last.path[i]].minLendIR

\* A borrow of a positive amount within the lender's cap, stopped because its
\* rate is one below the lender's minimum.
C11_Witness ==
  /\ last.op = "borrow"
  /\ last.err = "UnderLenderMinIR"
  /\ last.amount > 0
  /\ last.errArgs[2] + 1 = last.pre.limits[last.errArgs[1]].minLendIR

\* balances[receiver].borrowed at the check of hop i of the last borrow: what
\* the receiver had borrowed before the call, plus, for each hop up to i it
\* is the receiver of, the interest accrued on that hop's loan and the amount.
BorrowedAtHop(i) ==
  last.pre.balances[Receiver(last.path, last.caller, i)].borrowed
    + Sum([j \in 1 .. i |->
             IF Receiver(last.path, last.caller, j)
                  = Receiver(last.path, last.caller, i)
               THEN HopAccrued(j) - HopLoanBefore(j).amount + last.amount
               ELSE 0], 1 .. i)

\* The first half of C12: when a hop i before the last is reached, the checks
\* on its sender passed and the receiver's borrowed, interest accrued so far
\* and the merged amount included, exceeds its borrowCap, the borrow stops
\* with OverBorrowingCap(receiver, that borrowed) at hop i.
BorrowCapStops ==
  \A i \in 1 .. Len(last.path) - 1 :
    (ReachedCheck(i, {"OverLendingCap", "UnderLenderMinIR"})
       /\ DistinctHops(last.path, last.caller)
       /\ BorrowedAtHop(i) > last.pre.limits[last.path[i + 1]].borrowCap) =>
      /\ last.err = "OverBorrowingCap"
      /\ last.hop = i
      /\ last.errArgs = <<last.path[i + 1], BorrowedAtHop(i)>>

\* C12 as stated: the borrowing cap stops the borrow at the hop, and after a
\* borrow that went through every relayer has borrowed <= borrowCap.
C12_BorrowCapAsStated ==
  /\ BorrowCapStops
  /\ BorrowWent =>
       \A i \in 2 .. Len(last.path) :
         balances[last.path[i]].borrowed <= limits[last.path[i]].borrowCap

\* C12, amended: the borrowing cap stops the borrow at the hop, and after a
\* borrow that went through every relayer that is not also the caller has
\* borrowed <= borrowCap; a relayer that is the caller was within its cap
\* when it was checked, before the last hop lent to it as the caller.
C12_RelayerBorrowCap ==
  /\ BorrowCapStops
  /\ BorrowWent =>
       \A i \in 2 .. Len(last.path) :
         /\ last.path[i] # last.caller =>
              balances[last.path[i]].borrowed
                <= limits[last.path[i]].borrowCap
         /\ DistinctHops(last.path, last.caller) =>
              BorrowedAtHop(i - 1) <= limits[last.path[i]].borrowCap

\* A borrow through a relayer stopped at its first hop because the interest
\* accrued on the relayer's loan, with the amount, took it over its cap.
C12_Witness ==
  /\ last.op = "borrow"
  /\ last.err = "OverBorrowingCap"
  /\ last.hop = 1
  /\ HopAccrued(1) > HopLoanBefore(1).amount
  /\ last.errArgs = <<last.path[2], BorrowedAtHop(1)>>

\* C13: when a hop i before the last is reached, the checks before passed
\* and rates[i] is above the receiver's maxBorrowIR, the borrow stops with
\* OverBorrowerMaxIR(receiver, rates[i]) at hop i; and in a borrow that went
\* through no relayer takes its loan at a rate above its maxBorrowIR.
C13_RelayerMaxRate ==
  /\ \A i \in 1 .. Len(last.path) - 1 :
       (ReachedCheck(i, {"OverLendingCap", "UnderLenderMinIR",
                         "OverBorrowingCap"})
          /\ last.irs[i] > last.pre.limits[last.path[i + 1]].maxBorrowIR) =>
         /\ last.err = "OverBorrowerMaxIR"
         /\ last.hop = i
         /\ last.errArgs = <<last.path[i + 1], last.irs[i]>>
  /\ BorrowWent =>
       \A i \in 1 .. Len(last.path) - 1 :
         last.irs[i] <= limits[last.path[i + 1]].maxBorrowIR

\* A borrow through a relayer with a positive maximum rate, within its
\* borrowing cap, stopped because the rate of the first hop is above it.
C13_Witness ==
  /\ last.op = "borrow"
  /\ last.err = "OverBorrowerMaxIR"
  /\ last.hop = 1
  /\ last.amount > 0
  /\ last.pre.limits[last.path[2]].maxBorrowIR > 0
  /\ last.errArgs = <<last.path[2], last.irs[1]>>

\* C14: when a hop i before the last is reached and the checks before passed,
\* the borrow stops at hop i with UnderRelayerMargin(R, 0) if rates[i+1] is
\* below rates[i] and with UnderRelayerMargin(R, rates[i+1] - rates[i]) if
\* that margin is below the minIRMargin of the relayer R = path[i+1]; and in
\* a borrow that went through every relayer's margin is at least its minimum.
C14_RelayerMargin ==
  /\ \A i \in 1 .. Len(last.path) - 1 :
       ReachedCheck(i, {"OverLendingCap", "UnderLenderMinIR",
                        "OverBorrowingCap", "OverBorrowerMaxIR"}) =>
         /\ last.irs[i + 1] < last.irs[i] =>
              /\ last.err = "UnderRelayerMargin"
              /\ last.hop = i
              /\ last.errArgs = <<last.path[i + 1], 0>>
         /\ (last.irs[i + 1] >= last.irs[i]
               /\ last.irs[i + 1] - last.irs[i]
                    < last.pre.limits[last.path[i + 1]].minIRMargin) =>
              /\ last.err = "UnderRelayerMargin"
              /\ last.hop = i
              /\ last.errArgs
                   = <<last.path[i + 1], last.irs[i + 1] - last.irs[i]>>
  /\ BorrowWent =>
       \A i \in 1 .. Len(last.path) - 1 :
         last.irs[i + 1] - last.irs[i]
           >= limits[last.path[i + 1]].minIRMargin

\* A borrow stopped because the relayer's margin, positive, is below the
\* minimum it asks for.
C14_Witness ==
  /\ last.op = "borrow"
  /\ last.err = "UnderRelayerMargin"
  /\ last.errArgs[2] > 0
  /\ last.errArgs[2] = last.irs[last.hop + 1] - last.irs[last.hop]

\* Values for an account's borrowCap, maxBorrowIR and minIRMargin.
BorrowSides == {<<0, 0, 0>>, <<1, 1, 1>>, <<4, 2, 2>>}

\* Ledger l with the three borrow-side limits of account x replaced.
WithBorrowSide(l, x, bs) ==
  [l EXCEPT !.limits[x].borrowCap = bs[1],
            !.limits[x].maxBorrowIR = bs[2],
            !.limits[x].minIRMargin = bs[3]]

\* The last call is a borrow with hops and as many rates in which neither the
\* caller nor path[0] appears at a later position of the path.
OnlyEndsBorrow ==
  /\ last.op = "borrow"
  /\ Len(last.path) > 0
  /\ Len(last.path) = Len(last.irs)
  /\ \A i \in 2 .. Len(last.path) :
       last.path[i] \notin {last.caller, last.path[1]}

\* C15: for a borrow in which neither the caller nor path[0] appears later
\* on the path, the same call made with any other borrowCap, maxBorrowIR and
\* minIRMargin of the caller and of path[0] has the same outcome, error,
\* arguments and hop included, issues the same transfer, and, where it goes
\* through, leaves the same loans, balances and token balances.
C15_BorrowSideOnlyForRelayers ==
  OnlyEndsBorrow =>
    \A bc \in BorrowSides, bp \in BorrowSides :
      LET other == WithBorrowSide(WithBorrowSide(last.pre, last.caller, bc),
                                  last.path[1], bp)
          r == borrow(other, trust, last.time, last.caller, last.amount,
                      last.path, last.irs)
      IN  /\ r.err = last.err
          /\ r.errArgs = last.errArgs
          /\ r.hop = last.hop
          /\ r.paid = last.paid
          /\ r.err = "none" =>
               /\ r.loans = loans
               /\ r.balances = balances
               /\ r.tokenBal = tokenBal

\* A caller with all-zero limits borrowed a positive amount, at a positive
\* rate, through a relayer.
C15_Witness ==
  /\ OnlyEndsBorrow
  /\ last.err = "none"
  /\ Len(last.path) = 2
  /\ last.amount > 0
  /\ last.pre.limits[last.caller] = ZeroLimits
  /\ balances[last.caller].borrowed > limits[last.caller].borrowCap
  /\ last.irs[1] > 0

\* The last call is a borrow that went through, over accounts that are
\* pairwise distinct, the caller included, at the time every loan it touches
\* was last accrued.
PlainBorrowWent ==
  /\ BorrowWent
  /\ Cardinality({last.path[i] : i \in 1 .. Len(last.path)}
                   \cup {last.caller}) = Len(last.path) + 1
  /\ \A i \in 1 .. Len(last.path) : HopLoanBefore(i).timestamp = last.time

\* C16: such a borrow raises the amount of the loan of every hop by amount,
\* raises by amount the lent of path[0], the borrowed of the caller and both
\* the lent and the borrowed of every relayer, and issues one transfer, of
\* amount from path[0] to the caller, which is the only movement of tokens.
C16_BorrowEffect ==
  PlainBorrowWent =>
    LET n == Len(last.path)
        first == last.path[1]
        relayers == {last.path[i] : i \in 2 .. n}
    IN  /\ \A i \in 1 .. n :
             HopLoanAfter(i).amount = HopLoanBefore(i).amount + last.amount
        /\ balances[first].lent
             = last.pre.balances[first].lent + last.amount
        /\ balances[first].borrowed = last.pre.balances[first].borrowed
        /\ balances[last.caller].borrowed
             = last.pre.balances[last.caller].borrowed + last.amount
        /\ balances[last.caller].lent = last.pre.balances[last.caller].lent
        /\ \A x \in relayers :
             /\ balances[x].lent = last.pre.balances[x].lent + last.amount
             /\ balances[x].borrowed
                  = last.pre.balances[x].borrowed + last.amount
        /\ last.paid = << <<first, last.caller, last.amount>> >>
        /\ tokenBal
             = [last.pre.tokenBal EXCEPT ![first] = @ - last.amount,
                                         ![last.caller] = @ + last.amount]
        /\ \A x \in relayers : tokenBal[x] = last.pre.tokenBal[x]

\* A borrow through a relayer, at a time later than 0, that added to loans
\* with a debt accrued at that time.
C16_Witness ==
  /\ PlainBorrowWent
  /\ Len(last.path) = 2
  /\ last.amount > 0
  /\ last.time > 0
  /\ HopLoanBefore(1).amount > 0
  /\ HopLoanBefore(2).amount > 0

\* The last call is a borrow every hop of which passed its checks.
HopsPassed ==
  /\ last.op = "borrow"
  /\ Len(last.path) > 0
  /\ Len(last.path) = Len(last.irs)
  /\ last.err \notin HopErrors \cup {"Panic", "DivisionByZero"}

\* The Safe of path[0] reports failure for the transfer of the last borrow:
\* the token call it makes aborts, path[0] holding less than amount.
SafeReportsFailure == last.pre.tokenBal[last.path[1]] < last.amount

\* C17: a borrow every hop of which passed its checks and whose transfer the
\* Safe of path[0] reports as failed stops with TransferFailed and leaves
\* every Loan, UserBalance and UserLimits, and every token balance, as it was
\* before the call; TransferFailed is raised by a borrow only then.
C17_TransferFailedRollsBack ==
  /\ (HopsPassed /\ SafeReportsFailure) =>
       /\ last.err = "TransferFailed"
       /\ loans = last.pre.loans
       /\ balances = last.pre.balances
       /\ limits = last.pre.limits
       /\ tokenBal = last.pre.tokenBal
  /\ (last.op = "borrow" /\ last.err = "TransferFailed") =>
       HopsPassed /\ SafeReportsFailure

\* A borrow through a relayer whose hops merged a positive amount into a loan
\* with a debt and whose transfer failed.
C17_Witness ==
  /\ HopsPassed
  /\ SafeReportsFailure
  /\ last.err = "TransferFailed"
  /\ Len(last.path) = 2
  /\ last.amount > 0
  /\ HopLoanBefore(1).amount > 0

\* The token reported failure for a cash transfer of the last repay: the
\* caller held less than the transfer asked for and the token call aborted.
RepayTransferFailed == last.op = "repay" /\ last.err = "TokenRevert"

\* C18: a repay one of whose cash transfers the token reports as failed stops
\* with TransferFailed and leaves every Loan and UserBalance as it was before
\* the call.
C18_RepayTransferFailed ==
  RepayTransferFailed =>
    /\ last.err = "TransferFailed"
    /\ loans = last.pre.loans
    /\ balances = last.pre.balances

\* What does hold of such a repay: it is rolled back, no debt is reduced.
RepayAbortRollsBack ==
  RepayTransferFailed =>
    /\ loans = last.pre.loans
    /\ balances = last.pre.balances
    /\ tokenBal = last.pre.tokenBal

\* Every transfer of the last call found in storage the loans and balances
\* the call ends with.
TransfersSawFinalLedger ==
  \A k \in 1 .. Len(last.seen) :
    /\ last.seen[k].loans = loans
    /\ last.seen[k].balances = balances

\* C19: in every borrow and every repay that goes through, every transfer
\* step is invoked when all the ledger writes of the call have been made: a
\* call re-entering from a transfer finds the loans and balances the outer
\* call ends with.
C19_BookkeepingBeforeTransfers ==
  (last.op \in {"borrow", "repay"} /\ last.err = "none") =>
    TransfersSawFinalLedger

\* What does hold: borrow issues its transfer after the loop over the hops,
\* and a repay along at most two loans has written both before it pays.
BorrowBooksBeforeTransfer ==
  (last.err = "none"
     /\ \/ last.op = "borrow"
        \/ last.op = "repay" /\ Len(last.path) <= 3) =>
    TransfersSawFinalLedger

\* C20: a borrow or a repay with an empty path stops with EmptyPath, for
\* every amount and, for borrow, for every list of rates, a non-empty one
\* too; it changes no state and issues no transfer.
C20_EmptyPath ==
  (last.op \in {"borrow", "repay"} /\ last.path = <<>>) =>
    /\ last.err = "EmptyPath"
    /\ last.errArgs = <<>>
    /\ last.paid = <<>>
    /\ limits = last.pre.limits
    /\ balances = last.pre.balances
    /\ loans = last.pre.loans
    /\ tokenBal = last.pre.tokenBal

\* A borrow with an empty path and two rates, on a ledger that holds a debt.
C20_Witness ==
  /\ last.op = "borrow"
  /\ last.path = <<>>
  /\ Len(last.irs) = 2
  /\ last.err = "EmptyPath"
  /\ \E x \in Addr : balances[x].lent > 0

\* The last call is a borrow with a path that is not empty and rates of
\* another length.
LengthsDiffer ==
  /\ last.op = "borrow"
  /\ Len(last.path) > 0
  /\ Len(last.path) # Len(last.irs)

\* C21: a borrow with a non-empty path and a list of rates of another length
\* stops with DifferentLengthsPathIRs(path length, rates length) (the spec's
\* PathRatesLengthMismatch) before any hop: the call, as it stops, has
\* written no loan and no balance and issued no transfer, it stops the same
\* whatever the trust relation is, and storage is as before the call.
C21_LengthMismatch ==
  LengthsDiffer =>
    /\ last.err = "DifferentLengthsPathIRs"
    /\ last.errArgs = <<Len(last.path), Len(last.irs)>>
    /\ last.hop = 0
    /\ last.paid = <<>>
    /\ last.seen = <<>>
    /\ \A tr \in {{}, trust, AllTrust} :
         LET r == borrow(last.pre, tr, last.time, last.caller, last.amount,
                         last.path, last.irs)
         IN  /\ r.err = "DifferentLengthsPathIRs"
             /\ r.loans = last.pre.loans
             /\ r.balances = last.pre.balances
             /\ r.tokenBal = last.pre.tokenBal
    /\ loans = last.pre.loans
    /\ balances = last.pre.balances
    /\ limits = last.pre.limits
    /\ tokenBal = last.pre.tokenBal

\* A borrow with two accounts on the path and one rate, at a time later than
\* the timestamp of the first hop's loan, which has a debt to accrue.
C21_Witness ==
  /\ LengthsDiffer
  /\ last.err = "DifferentLengthsPathIRs"
  /\ Len(last.path) = 2
  /\ Len(last.irs) = 1
  /\ HopAccrued(1) > HopLoanBefore(1).amount

\* C22: setSettings never fails; it makes the caller's UserLimits the record
\* supplied, all five fields, and leaves the limits of every other account,
\* every Loan, every UserBalance and every token balance unchanged.
C22_SetSettings ==
  last.op = "setSettings" =>
    /\ last.err = "none"
    /\ limits[last.caller] = last.settings
    /\ \A x \in Addr \ {last.caller} : limits[x] = last.pre.limits[x]
    /\ loans = last.pre.loans
    /\ balances = last.pre.balances
    /\ tokenBal = last.pre.tokenBal

\* An account that had set limits and lent sets other limits, with a
\* lendingCap below what it has lent.
C22_Witness ==
  /\ last.op = "setSettings"
  /\ last.pre.limits[last.caller] # ZeroLimits
  /\ last.pre.limits[last.caller] # last.settings
  /\ last.pre.limits[last.caller].minIRMargin # last.settings.minIRMargin
  /\ last.settings.lendingCap < balances[last.caller].lent
  /\ limits[last.caller] = last.settings

\* The last call is a repay with a path of one account.
RepayAlone == last.op = "repay" /\ Len(last.path) = 1

\* C23 as stated: a repay with a path of one account changes no Loan and no
\* UserBalance and leaves every token balance as it was.
C23_NoOpAsStated ==
  RepayAlone =>
    /\ loans = last.pre.loans
    /\ balances = last.pre.balances
    /\ tokenBal = last.pre.tokenBal

\* C23, amended: a repay with a path of one account changes no Loan and no
\* UserBalance, not even a timestamp; when amount > 0 it transfers amount in
\* tokens from the caller to that account, and stops, changing nothing, when
\* the caller holds less; token balances stay as they were only when the
\* amount is 0, the account is the caller, or the call stops.
C23_PassThroughPaysFirst ==
  RepayAlone =>
    /\ loans = last.pre.loans
    /\ balances = last.pre.balances
    /\ limits = last.pre.limits
    /\ last.err = (IF last.pre.tokenBal[last.caller] < last.amount
                     THEN "TokenRevert" ELSE "none")
    /\ last.err = "none" =>
         /\ last.paid = (IF last.amount > 0
                           THEN << <<last.caller, last.path[1], last.amount>> >>
                           ELSE <<>>)
         /\ tokenBal
              = [[last.pre.tokenBal EXCEPT ![last.caller] = @ - last.amount]
                   EXCEPT ![last.path[1]] = @ + last.amount]
    /\ last.err # "none" => tokenBal = last.pre.tokenBal

\* A repay with a path of one account, not the caller, moved tokens to it at
\* a time later than that account's balance timestamp.
C23_Witness ==
  /\ RepayAlone
  /\ last.err = "none"
  /\ last.path[1] # last.caller
  /\ last.amount > 0
  /\ tokenBal[last.path[1]] = last.pre.tokenBal[last.path[1]] + last.amount
  /\ last.time > balances[last.path[1]].timestamp

\* The loan of link k of the last repay, before and after the call.
LinkLoanBefore(k) == last.pre.loans[last.path[k + 1]][last.path[k]]

LinkLoanAfter(k) == loans[last.path[k + 1]][last.path[k]]

LinkAccrued(k) ==
  Accrued(last.pre, last.path[k + 1], last.path[k], last.time)

\* C24: a loan that a repay repays in full, its whole accrued amount, is
\* left with amount 0, the rate it had before and the time of the repay as
\* timestamp; and a borrow that goes through on a loan whose amount is 0
\* leaves it with the amount borrowed and the rate of the hop, whatever rate
\* the loan had kept.
C24_RepaidLoanPersists ==
  /\ (RepayWent /\ DistinctLinks(last.path)) =>
       \A k \in 1 .. Len(last.path) - 1 :
         (LinkAccrued(k) > 0 /\ Absorbed(k) = LinkAccrued(k)) =>
           /\ LinkLoanAfter(k).amount = 0
           /\ LinkLoanAfter(k).interestRatePerSecond
                = LinkLoanBefore(k).interestRatePerSecond
           /\ LinkLoanAfter(k).timestamp = last.time
  /\ (BorrowWent /\ DistinctHops(last.path, last.caller)) =>
       \A i \in 1 .. Len(last.path) :
         HopLoanBefore(i).amount = 0 =>
           /\ HopLoanAfter(i).amount = last.amount
           /\ HopLoanAfter(i).interestRatePerSecond = last.irs[i]

\* A repay, later than the loan's timestamp, that repaid in full a loan with
\* a rate and with interest to accrue.
C24_Witness ==
  /\ RepayWent
  /\ LinkAccrued(1) > LinkLoanBefore(1).amount
  /\ Absorbed(1) = LinkAccrued(1)
  /\ LinkLoanAfter(1).amount = 0
  /\ LinkLoanAfter(1).interestRatePerSecond > 0

\* A borrow on a loan that had been repaid in full and had kept another rate.
RepaidLoanBorrowedAgain ==
  /\ BorrowWent
  /\ last.amount > 0
  /\ HopLoanBefore(1).amount = 0
  /\ HopLoanBefore(1).interestRatePerSecond > 0
  /\ HopLoanBefore(1).interestRatePerSecond # last.irs[1]

\* C25: updateLoan has no failure path: in every reachable state, for every
\* pair of accounts, a call returns; it never aborts on overflow.
C25_AccrueNeverFails ==
  /\ last.op = "updateLoan" => last.err = "none"
  /\ last = Idle =>
       \A l \in Addr, b \in Addr :
         updateLoan(Start(Ledger), l, b, now, 0).err = "none"

\* What does hold: the clock never runs behind a loan's timestamp, and
\* updateLoan stops only when its checked arithmetic overflows.
AccrueFailsOnlyOnOverflow ==
  /\ \A l \in Addr, b \in Addr : loans[l][b].timestamp <= now
  /\ last.op = "updateLoan" => last.err \in {"none", "Panic"}

\* The rate of a loan of amount a at rate ra after b1 and then b2 are
\* borrowed into it at rate r.
SplitRate(a, ra, b1, b2, r) ==
  MergedRate(a + b1, MergedRate(a, ra, b1, r), b2, r)

\* For every loan and every split of an amount in two or in three, the rate
\* after the parts is the rate after the whole or below it by at most one
\* per further part.
SplitTable ==
  \A a \in 0 .. MaxMerged, ra \in 0 .. MaxMerged, r \in 0 .. MaxMerged :
    \A b1 \in 0 .. MaxMerged, b2 \in 0 .. MaxMerged :
      LET whole == MergedRate(a, ra, b1 + b2, r)
          parts == SplitRate(a, ra, b1, b2, r)
      IN  /\ parts \in {whole - 1, whole}
          /\ \A b3 \in 0 .. 1 :
               MergedRate(a + b1 + b2, parts, b3, r)
                 \in (MergedRate(a, ra, b1 + b2 + b3, r) - 2)
                       .. MergedRate(a, ra, b1 + b2 + b3, r)

\* The last borrow made as two borrows, of b1 and of the rest, one straight
\* after the other.
InTwo(b1) ==
  LET r1 == borrow(last.pre, trust, last.time, last.caller, b1, last.path,
                   last.irs)
  IN  IF r1.err # "none" THEN r1
      ELSE borrow(Strip(r1), trust, last.time, last.caller,
                  last.amount - b1, last.path, last.irs)

\* No account takes part in the last borrow twice.
SimpleChain ==
  /\ Cardinality({last.path[i] : i \in 1 .. Len(last.path)}) = Len(last.path)
  /\ \A i \in 1 .. Len(last.path) : last.path[i] # last.caller

\* C26: the merged rate of a total borrowed into a loan in parts is the rate
\* of borrowing it at once, up to the rounding of the integer divisions; and
\* a borrow along distinct loans that went through, made instead as two
\* borrows at the same time, leaves every loan with the same amount, every
\* account with the same lent, borrowed and tokens, and every loan with the
\* same rate or a rate one below; the two borrows go through whenever no
\* account takes part twice.
C26_SplitIndependence ==
  /\ SplitTable
  /\ (BorrowWent /\ DistinctHops(last.path, last.caller)) =>
       \A b1 \in 0 .. last.amount :
         LET two == InTwo(b1)
         IN  /\ SimpleChain => two.err = "none"
             /\ two.err = "none" =>
                  /\ two.tokenBal = tokenBal
                  /\ \A x \in Addr :
                       /\ two.balances[x].lent = balances[x].lent
                       /\ two.balances[x].borrowed = balances[x].borrowed
                  /\ \A l \in Addr, b \in Addr :
                       /\ two.loans[l][b].amount = loans[l][b].amount
                       /\ two.loans[l][b].interestRatePerSecond
                            \in {loans[l][b].interestRatePerSecond - 1,
                                 loans[l][b].interestRatePerSecond}

\* A borrow of two units into a loan that holds a debt at another rate and
\* was last touched at the same time, which goes through as two borrows of
\* one unit as well.
C26_Witness ==
  /\ BorrowWent
  /\ SimpleChain
  /\ last.amount = 2
  /\ HopLoanBefore(1).amount > 0
  /\ HopLoanBefore(1).timestamp = last.time
  /\ HopLoanBefore(1).interestRatePerSecond # last.irs[1]
  /\ InTwo(1).err = "none"

\* The errors of the checks of a hop, in the order the claim gives.
CheckOrder ==
  <<"OverLendingCap", "UnderLenderMinIR", "OverBorrowingCap",
    "OverBorrowerMaxIR", "UnderRelayerMargin", "LenderDoesNotTrustBorrower">>

\* Check k of hop i of the last borrow would fail, taken alone: its condition
\* on the limits and the trust at the call and on what the hop's parties
\* have lent and borrowed once the hops up to i are booked.
WouldFail(i, k) ==
  LET sender == last.path[i]
      receiver == Receiver(last.path, last.caller, i)
      relays == i < Len(last.path)
  IN  CASE k = 1 -> LentAtHop(i) > last.pre.limits[sender].lendingCap
        [] k = 2 -> last.irs[i] < last.pre.limits[sender].minLendIR
        [] k = 3 -> relays
                      /\ BorrowedAtHop(i) > last.pre.limits[receiver].borrowCap
        [] k = 4 -> relays
                      /\ last.irs[i] > last.pre.limits[receiver].maxBorrowIR
        [] k = 5 -> relays
                      /\ last.irs[i + 1] - last.irs[i]
                           < last.pre.limits[receiver].minIRMargin
        [] k = 6 -> <<sender, receiver>> \notin trust

\* The checks of the last borrow that would fail.
Failing ==
  {c \in (1 .. Len(last.path)) \X (1 .. 6) : WouldFail(c[1], c[2])}

\* Check c comes before check d: an earlier hop, or the same hop and earlier
\* in the order.
Before(c, d) == c[1] < d[1] \/ (c[1] = d[1] /\ c[2] < d[2])

\* The last call is a borrow along distinct loans that got to its hops and
\* whose arithmetic did not abort.
BorrowChecked ==
  /\ last.op = "borrow"
  /\ Len(last.path) > 0
  /\ Len(last.path) = Len(last.irs)
  /\ DistinctHops(last.path, last.caller)
  /\ last.err \notin {"Panic", "DivisionByZero"}

\* C27: a borrow whose checks would all pass is not stopped by a check; when
\* some would fail, the borrow stops at the first hop with a failing check
\* and reports the failing check of that hop that comes first in the order
\* OverLendingCap, UnderLenderMinIR, OverBorrowingCap, OverBorrowerMaxIR,
\* UnderRelayerMargin, LenderDoesNotTrustBorrower.
C27_CheckPrecedence ==
  BorrowChecked =>
    /\ Failing = {} => last.err \notin HopErrors
    /\ \A c \in Failing :
         (\A d \in Failing : d = c \/ Before(c, d)) =>
           /\ last.err = CheckOrder[c[2]]
           /\ last.hop = c[1]

\* A borrow whose first failing hop both exceeds the lending cap and lacks
\* trust, reported as OverLendingCap.
C27_Witness ==
  /\ BorrowChecked
  /\ last.err = "OverLendingCap"
  /\ WouldFail(last.hop, 1)
  /\ WouldFail(last.hop, 6)

\* A borrow of two hops whose first hop fails a late check and whose second
\* hop would fail the first check.
LateCheckOfEarlierHop ==
  /\ BorrowChecked
  /\ last.hop = 1
  /\ last.err \in {"OverBorrowerMaxIR", "UnderRelayerMargin",
                   "LenderDoesNotTrustBorrower"}
  /\ Len(last.path) > 1
  /\ WouldFail(2, 1)

\* Loan (l, b) and the aggregates of its two parties carry the time of the
\* last call.
StampedNow(l, b) ==
  /\ loans[l][b].timestamp = last.time
  /\ balances[l].timestamp = last.time
  /\ balances[b].timestamp = last.time

\* C28: after a borrow or a repay that went through, every loan of the path
\* and the aggregates of its two parties carry the time of the call, and so
\* does every loan whose amount the call changed; along distinct loans each
\* amount is the amount accrued to the time of the call plus what the hop
\* borrowed, or minus what the link repaid.
C28_AccrualPrecedesMutation ==
  /\ (last.op \in {"borrow", "repay"} /\ last.err = "none") =>
       \A l \in Addr, b \in Addr :
         loans[l][b].amount # last.pre.loans[l][b].amount => StampedNow(l, b)
  /\ BorrowWent =>
       \A i \in 1 .. Len(last.path) :
         /\ StampedNow(last.path[i], Receiver(last.path, last.caller, i))
         /\ DistinctHops(last.path, last.caller) =>
              HopLoanAfter(i).amount = HopAccrued(i) + last.amount
  /\ RepayWent =>
       \A k \in 1 .. Len(last.path) - 1 :
         /\ StampedNow(last.path[k + 1], last.path[k])
         /\ DistinctLinks(last.path) =>
              LinkLoanAfter(k).amount = LinkAccrued(k) - Absorbed(k)

\* A borrow that went through into a loan with interest due, whose lender's
\* and borrower's aggregates were last touched before the call.
C28_Witness ==
  /\ BorrowWent
  /\ DistinctHops(last.path, last.caller)
  /\ HopAccrued(1) > HopLoanBefore(1).amount
  /\ HopLoanBefore(1).timestamp < last.time
  /\ last.pre.balances[last.path[1]].timestamp < last.time
  /\ last.pre.balances[Receiver(last.path, last.caller, 1)].timestamp
       < last.time

\* A repay that went through and reduced a loan with interest due.
RepayOfStaleLoan ==
  /\ RepayWent
  /\ DistinctLinks(last.path)
  /\ LinkAccrued(1) > LinkLoanBefore(1).amount
  /\ Absorbed(1) > 0
  /\ last.pre.balances[last.path[1]].timestamp < last.time

\* The ledger before the last call with the three timestamps of the pair of
\* the call set to the time of the call.
OnlyStamped ==
  [loans |-> [last.pre.loans EXCEPT
                ![last.lender][last.borrower].timestamp = last.time],
   balances |-> [last.pre.balances EXCEPT
                   ![last.lender].timestamp = last.time,
                   ![last.borrower].timestamp = last.time]]

\* C29: updateLoan on a loan of amount 0 does not fail and changes nothing
\* but the timestamp of the loan and of the lender's and the borrower's
\* aggregates, which become the time of the call.
C29_AccrueEmptyLoan ==
  (last.op = "updateLoan" /\ LoanBefore.amount = 0) =>
    /\ last.err = "none"
    /\ loans = OnlyStamped.loans
    /\ balances = OnlyStamped.balances
    /\ limits = last.pre.limits
    /\ tokenBal = last.pre.tokenBal
    /\ StampedNow(last.lender, last.borrower)

\* updateLoan, at a later time, on a pair that never had a loan and whose
\* lender has lent to another account.
C29_Witness ==
  /\ AccrueWent
  /\ LoanBefore = ZeroLoan
  /\ last.time > 0
  /\ last.pre.balances[last.lender].timestamp < last.time
  /\ last.pre.balances[last.borrower].timestamp < last.time
  /\ last.pre.balances[last.borrower].lent + last.pre.balances[last.lender].lent
       + last.pre.balances[last.borrower].borrowed > 0

\* updateLoan, at a later time, on a loan that was repaid in full and keeps
\* its rate.
AccrueOfRepaidLoan ==
  /\ AccrueWent
  /\ LoanBefore.amount = 0
  /\ LoanBefore.interestRatePerSecond > 0
  /\ LoanBefore.timestamp < last.time

\* C30: a call of updateLoan(l, b), whatever its outcome, leaves every loan
\* but (l, b), the aggregates of every account but l and b, all limits and
\* all token balances as they were, and leaves the rate of loan (l, b) as it
\* was.
C30_AccrueFrame ==
  last.op = "updateLoan" =>
    /\ \A l \in Addr, b \in Addr :
         <<l, b>> # <<last.lender, last.borrower>> =>
           loans[l][b] = last.pre.loans[l][b]
    /\ \A x \in Addr \ {last.lender, last.borrower} :
         balances[x] = last.pre.balances[x]
    /\ limits = last.pre.limits
    /\ tokenBal = last.pre.tokenBal
    /\ LoanAfter.interestRatePerSecond = LoanBefore.interestRatePerSecond

\* updateLoan adding interest to a loan while another loan, of other
\* accounts' or in the other direction, has interest due as well.
C30_Witness ==
  /\ AccrueWent
  /\ LoanAfter.amount > LoanBefore.amount
  /\ \E l \in Addr, b \in Addr :
       /\ <<l, b>> # <<last.lender, last.borrower>>
       /\ last.pre.loans[l][b].amount > 0
       /\ last.pre.loans[l][b].timestamp < last.time
  /\ \E x \in Addr \ {last.lender, last.borrower} :
       /\ last.pre.balances[x].lent + last.pre.balances[x].borrowed > 0
       /\ last.pre.balances[x].timestamp < last.time

\* Account l immediately follows account b on the path.
FollowsOnPath(path, b, l) ==
  \E k \in 1 .. Len(path) - 1 : path[k] = b /\ path[k + 1] = l

\* C31: in every step, a loan (l, b) whose amount is smaller after the step
\* than before was reduced by a repay that went through and whose path has b
\* immediately followed by l; no step of updateLoan, borrow or setSettings
\* and no call that fails lowers the amount of any loan.
C31_DecreaseOnlyByRepay ==
  [][\A l \in Addr, b \in Addr :
       loans'[l][b].amount < loans[l][b].amount =>
         /\ last'.op = "repay"
         /\ last'.err = "none"
         /\ FollowsOnPath(last'.path, b, l)]_vars

\* A repay that went through and left a loan with interest due smaller than
\* it was before the call, while another loan is left as it was.
C31_Witness ==
  /\ RepayWent
  /\ \E k \in 1 .. Len(last.path) - 1 :
       /\ LinkLoanAfter(k).amount < LinkLoanBefore(k).amount
       /\ LinkAccrued(k) > LinkLoanBefore(k).amount
  /\ \E l \in Addr, b \in Addr :
       /\ ~FollowsOnPath(last.path, b, l)
       /\ loans[l][b].amount > 0

\* The accounts at the intermediate positions of the path of the last
\* borrow, the receivers of all hops but the last.
Intermediates == {last.path[i] : i \in 2 .. Len(last.path)}

ZeroBorrowRelayed ==
  /\ BorrowWent
  /\ last.amount = 0
  /\ \E x \in Intermediates : limits[x] = ZeroLimits

\* The last call is a repay along the one loan (path[1], path[0]), which has
\* an amount, offering at least the loan's amount accrued to the time of the
\* call, by a caller that holds the tokens for it.
FullRepay ==
  /\ last.op = "repay"
  /\ Len(last.path) = 2
  /\ LinkLoanBefore(1).amount > 0
  /\ last.amount >= LinkAccrued(1)
  /\ last.pre.tokenBal[last.caller] >= LinkAccrued(1)

\* C33 as stated: a repay of the whole amount of a loan, with the tokens to
\* pay it, goes through and leaves the loan with amount 0.
C33_FullRepayNeverAborts ==
  FullRepay =>
    /\ last.err = "none"
    /\ LinkLoanAfter(1).amount = 0

\* A full repay with no interest due (the loan was last touched at the time
\* of the call) that aborts in the arithmetic: repaid * rate / D is more than
\* the lender's owedPerSecond or the borrower's owesPerSecond.
FullRepayUnderflows ==
  /\ FullRepay
  /\ LinkLoanBefore(1).timestamp = last.time
  /\ last.err = "Panic"
  /\ RateDelta(LinkLoanBefore(1).amount,
               LinkLoanBefore(1).interestRatePerSecond)
       > Min(last.pre.balances[last.path[2]].owedPerSecond,
             last.pre.balances[last.path[1]].owesPerSecond)

\* A full repay fails in the arithmetic only; when it goes through, the loan
\* is left with amount 0.
FullRepayFailsOnlyInArithmetic ==
  FullRepay =>
    /\ last.err \in {"none", "Panic"}
    /\ last.err = "none" => LinkLoanAfter(1).amount = 0

\* The totals of the four aggregates over all accounts.
TotalOwed == Sum([x \in Addr |-> balances[x].owedPerSecond], Addr)

TotalOwes == Sum([x \in Addr |-> balances[x].owesPerSecond], Addr)

TotalLent == Sum([x \in Addr |-> balances[x].lent], Addr)

TotalBorrowed == Sum([x \in Addr |-> balances[x].borrowed], Addr)

\* C34: in every reachable state the owedPerSecond of all accounts add up to
\* the owesPerSecond of all accounts, and the lent of all accounts to the
\* borrowed of all accounts.
C34_GlobalBalance ==
  /\ TotalOwed = TotalOwes
  /\ TotalLent = TotalBorrowed

\* After an updateLoan that added interest and raised the rate totals, with
\* two loans open and an account that is lender of one and borrower of the
\* other.
C34_Witness ==
  /\ AccrueWent
  /\ LoanAfter.amount > LoanBefore.amount
  /\ TotalOwed > Sum([x \in Addr |-> last.pre.balances[x].owedPerSecond], Addr)
  /\ \E x \in Addr : balances[x].lent > 0 /\ balances[x].borrowed > 0

\* The last repay made again on the ledger before it, offering only what its
\* first link absorbs.
RepayOfFirstDebt ==
  repay(last.pre, last.time, last.caller, Absorbed(1), last.path)

\* C35: in a repay that went through, along one link or more, every transfer
\* is paid by the caller and the transfers add up to min(A, amount of the
\* first loan accrued to the time of the call); the caller's tokens go down
\* by that sum less what it is paid itself; and what A exceeds the first
\* debt by has no effect: the same call offering min(A, first debt) leaves
\* the same loans, aggregates and token balances and makes the same
\* transfers.
C35_CallerPaysFirstDebt ==
  RepayWent =>
    /\ \A j \in 1 .. Len(last.paid) : last.paid[j][1] = last.caller
    /\ CashPaid = Min(last.amount, LinkAccrued(1))
    /\ tokenBal[last.caller]
         = last.pre.tokenBal[last.caller] - CashPaid + CashTo(last.caller)
    /\ RepayOfFirstDebt.err = "none"
    /\ Strip(RepayOfFirstDebt) = Ledger
    /\ RepayOfFirstDebt.paid = last.paid

\* A repay along two loans that offers more than the first loan, with
\* interest due, has accrued, and pays the relayer and the final lender.
C35_Witness ==
  /\ RepayWent
  /\ Len(last.path) = 3
  /\ LinkAccrued(1) > LinkLoanBefore(1).amount
  /\ last.amount > LinkAccrued(1)
  /\ Len(last.paid) = 2
  /\ CashPaid < last.amount

\* The accounts of the path of the last call are pairwise distinct.
DistinctAccounts ==
  Cardinality({last.path[i] : i \in 1 .. Len(last.path)}) = Len(last.path)

\* By how much link k of the last repay reduced its loan, measured from the
\* loan's amount accrued to the time of the call.
Reduction(k) == LinkAccrued(k) - LinkLoanAfter(k).amount

\* lent - borrowed + tokens of account x in a ledger.
NetWorth(l, x) == l.balances[x].lent - l.balances[x].borrowed + l.tokenBal[x]

\* For the relayer path[k] of the last repay: the reduction of what
\* path[k - 1] owes it is the reduction of what it owes path[k + 1] plus the
\* cash it is paid, and the reductions do not increase along the path.
ReductionsBalance(k) ==
  /\ Reduction(k - 1) = Reduction(k) + CashTo(last.path[k])
  /\ Reduction(k) <= Reduction(k - 1)

\* The relayer path[k] of the last repay ends with its lent - borrowed +
\* tokens as before the call, but for the interest accrued on the loan it
\* gave and on the loan it took.
NetWorthKept(k) ==
  NetWorth(Ledger, last.path[k])
    = NetWorth(last.pre, last.path[k])
        + (LinkAccrued(k - 1) - LinkLoanBefore(k - 1).amount)
        - (LinkAccrued(k) - LinkLoanBefore(k).amount)

RelayerRepays ==
  /\ RepayWent
  /\ DistinctAccounts
  /\ Len(last.path) = 3
  /\ last.caller = last.path[2]
  /\ Reduction(1) > 0

\* Account x has lent and borrowed nothing and is party to no loan with an
\* amount.
Unexposed(x) ==
  /\ balances[x].lent = 0
  /\ balances[x].borrowed = 0
  /\ \A y \in Addr : loans[x][y].amount = 0 /\ loans[y][x].amount = 0

\* C37: every account starts unexposed, with all limits zero, and no step
\* exposes an unexposed account whose limits are zero before and after it,
\* unless the step is a borrow that the account called itself: an account
\* that never set its limits and never borrowed has lent = 0 and borrowed = 0
\* and no loan with an amount, whatever the others call.
C37_NoExposureWithoutConsent ==
  /\ \A x \in Addr : Unexposed(x) /\ limits[x] = ZeroLimits
  /\ [][\A x \in Addr :
          (/\ Unexposed(x)
           /\ limits[x] = ZeroLimits
           /\ limits'[x] = ZeroLimits
           /\ ~(last'.op = "borrow" /\ last'.caller = x)) => Unexposed(x)']_vars

\* A borrow of an amount by another account, from a lender that never set
\* its limits and trusts the receiver, stopped at that lender's lending cap of
\* zero and leaving it unexposed.
C37_Witness ==
  /\ last.op = "borrow"
  /\ last.amount > 0
  /\ last.err = "OverLendingCap"
  /\ last.errArgs[1] # last.caller
  /\ limits[last.errArgs[1]] = ZeroLimits
  /\ Unexposed(last.errArgs[1])
  /\ <<last.errArgs[1], Receiver(last.path, last.caller, last.hop)>> \in trust

Max(a, b) == IF a > b THEN a ELSE b

\* For every loan with an amount and every amount and rate merged into it,
\* the merged rate lies between the loan's rate and the rate merged.
MergeTable ==
  \A a \in 1 .. MaxMerged, ra \in 0 .. MaxMerged :
    \A b \in 0 .. MaxMerged, r \in 0 .. MaxMerged :
      /\ Min(ra, r) <= MergedRate(a, ra, b, r)
      /\ MergedRate(a, ra, b, r) <= Max(ra, r)

\* The rates of the borrow calls of the model.
InputRates == UNION {{in[4][i] : i \in 1 .. Len(in[4])} : in \in BorrowInputs}

\* C38: the rate merged into a loan with an amount lies between the loan's
\* rate and the hop's rate; an empty loan takes the hop's rate; no call but a
\* borrow that goes through changes the rate of a loan, and a borrow changes
\* the rates of the loans of its hops only; hence the rate of every loan with
\* an amount lies between the smallest and the largest rate ever offered.
C38_MergedRateWithinBounds ==
  /\ MergeTable
  /\ (BorrowWent /\ DistinctHops(last.path, last.caller)) =>
       \A i \in 1 .. Len(last.path) :
         IF HopLoanBefore(i).amount > 0
           THEN /\ HopLoanAfter(i).interestRatePerSecond
                     >= Min(HopLoanBefore(i).interestRatePerSecond, last.irs[i])
                /\ HopLoanAfter(i).interestRatePerSecond
                     <= Max(HopLoanBefore(i).interestRatePerSecond, last.irs[i])
           ELSE HopLoanAfter(i).interestRatePerSecond = last.irs[i]
  /\ last # Idle =>
       \A l \in Addr, b \in Addr :
         (BorrowWent /\ <<l, b>> \in Hops(last.path, last.caller))
           \/ loans[l][b].interestRatePerSecond
                = last.pre.loans[l][b].interestRatePerSecond
  /\ \A l \in Addr, b \in Addr :
       loans[l][b].amount > 0 =>
         \E lo \in InputRates, hi \in InputRates :
           /\ lo <= loans[l][b].interestRatePerSecond
           /\ loans[l][b].interestRatePerSecond <= hi
           /\ \A r \in InputRates : lo <= r /\ r <= hi

\* A borrow of an amount at one rate into a loan that holds a debt, with
\* interest due, at the other rate.
C38_Witness ==
  /\ BorrowWent
  /\ DistinctHops(last.path, last.caller)
  /\ last.amount > 0
  /\ \E i \in 1 .. Len(last.path) :
       /\ HopLoanBefore(i).amount > 0
       /\ HopAccrued(i) > HopLoanBefore(i).amount
       /\ HopLoanBefore(i).interestRatePerSecond # last.irs[i]

\* Other limits the accounts could have: each account with none or with the
\* strict ones.
OtherLimits == [Addr -> {ZeroLimits, StrictLimits}]

\* The last repay made on the ledger before it with the limits lim.
RepayUnder(lim) ==
  repay([last.pre EXCEPT !.limits = lim], last.time, last.caller, last.amount,
        last.path)

\* C39: a repay leaves all limits as they were, and under any other limits
\* of the accounts the same call has the same outcome: the same error at the
\* same link or, going through, the same loans, aggregates, token balances
\* and transfers, the limits left as given. The trust relation is no input
\* of repay.
C39_RepayNotGated ==
  last.op = "repay" =>
    /\ limits = last.pre.limits
    /\ \A lim \in OtherLimits :
         LET r == RepayUnder(lim)
         IN  /\ r.err = last.err
             /\ r.errArgs = last.errArgs
             /\ r.hop = last.hop
             /\ last.err = "none" =>
                  /\ r.loans = loans
                  /\ r.balances = balances
                  /\ r.tokenBal = tokenBal
                  /\ r.paid = last.paid
                  /\ r.limits = lim

\* A repay that went through and reduced the loan of a lender that has lent
\* more than the lendingCap it has set since.
C39_Witness ==
  /\ RepayWent
  /\ \E k \in 1 .. Len(last.path) - 1 :
       /\ LinkLoanAfter(k).amount < LinkLoanBefore(k).amount
       /\ last.pre.balances[last.path[k + 1]].lent
            > last.pre.limits[last.path[k + 1]].lendingCap

\* The errors of the rate checks of borrow.
RateErrors == {"UnderLenderMinIR", "OverBorrowerMaxIR", "UnderRelayerMargin"}

\* validatePath on the path and rates of the last borrow, with a settings
\* map that holds the limits of the accounts in known as they were at the
\* call.
Validated(known) ==
  validatePath(last.path, last.irs, known, last.pre.limits, last.caller)

\* The rates of the last borrow go down at some hop before the last.
RatesDecrease ==
  \E i \in 1 .. Len(last.path) - 1 :
    HasRate(last.irs, i + 1) /\ last.irs[i + 1] < last.irs[i]

\* C40: whatever accounts the settings map knows, a borrow whose path and
\* rates validatePath finds valid under the limits of the call does not stop
\* with UnderLenderMinIR, OverBorrowerMaxIR or UnderRelayerMargin; a path
\* whose rates go down is found valid under no map and its borrow does not
\* go through.
C40_ValidatePathCoversRateChecks ==
  last.op = "borrow" =>
    /\ \A known \in SUBSET Addr :
         Validated(known) = "valid" => last.err \notin RateErrors
    /\ (Len(last.path) = Len(last.irs) /\ RatesDecrease) =>
         /\ \A known \in SUBSET Addr : Validated(known) # "valid"
         /\ last.err # "none"

\* A borrow through a relayer, at rates that go up, whose path validatePath
\* finds valid and whose rate checks all pass at limits that are not zero.
C40_Witness ==
  /\ BorrowWent
  /\ Len(last.path) >= 2
  /\ last.irs[2] > last.irs[1]
  /\ Validated(Addr) = "valid"
  /\ limits[last.path[1]].minLendIR > 0 \/ limits[last.path[2]].minIRMargin > 0

\* A borrow that validatePath finds valid and that stops at a check
\* validatePath does not make.
ValidButRefused ==
  /\ last.op = "borrow"
  /\ Validated(Addr) = "valid"
  /\ last.err \in {"OverLendingCap", "OverBorrowingCap",
                   "LenderDoesNotTrustBorrower", "TransferFailed"}

\* A borrow that goes through and that validatePath finds invalid.
RefusedButGoesThrough ==
  /\ BorrowWent
  /\ Len(last.path) >= 2
  /\ Validated(Addr) = "invalid"

====
